---- MODULE Spec2Model ----
(***************************************************************************)
(* Model of the gate orchestration engine of repochief-quality-gates:      *)
(*   BaseQualityGate (src/src/gates/ESLintGate.js:216-360)  the Executor   *)
(*   QualityRunner   (src/src/QualityRunner.js)              the Runner    *)
(*   ResultReporter  (src/src/ResultReporter.js)             the Reporter  *)
(*   createGate, createWithGates (src/src/index.js, QualityRunner.js)      *)
(*   TestRunnerGate.execute (src/src/gates/TestRunnerGate.js)              *)
(*                                                                         *)
(* Time is counted in units of 1000 ms.  Every pending setTimeout is a     *)
(* countdown; Tick lets one unit pass when no timer is due and no promise  *)
(* continuation is pending (continuations run before timers in Node).      *)
(* A JavaScript object is a record; a property the code does not set is a  *)
(* field the record does not have.                                         *)
(*                                                                         *)
(* Spec and GateSpec run a Runner whose Reporter is the default one;       *)
(* SummarySpec applies generateSummary to Result sequences; ReporterSpec   *)
(* drives a Reporter on its own, with a storage adapter whose calls settle *)
(* later and either way; StoreSpec runs a Runner with such a Reporter;     *)
(* FactorySpec calls the factory functions and TestGateSpec follows one    *)
(* call of TestRunnerGate.execute through the file system.  TimedSpec is   *)
(* Spec with a wall clock that moves with the timers and with the event    *)
(* loop's scheduling as fairness; EditSpec adds addGate and removeGate     *)
(* calls made before, during and after a run; OverlapSpec calls run again  *)
(* before the earlier call has returned; PolicySpec builds one lint or     *)
(* security gate and applies its failure policy to the issues it found.    *)
(* The wall clock `new Date()` reads moves only under SummarySpec,         *)
(* ReporterSpec and TimedSpec.                                             *)
(***************************************************************************)
EXTENDS Integers, Sequences, FiniteSets, TLC

NumGates == 2

MaxRetry == 2

RunRetry == 1

MaxTimeout == 2

BaseDelay == 1

MaxLen == 3

MaxSummaries == 2

MaxReports == 2

MaxFlushes == 2

MaxClock == 1

MaxTypes == 2

MaxBuilt == 2

MaxTests == 1

MaxIssues == 3

MaxThreshold == 2

MaxVerdicts == 2

MaxEdits == 2

NumRuns == 2

OverlapGates == 1

VARIABLES
    parallel,           \* QualityRunner.parallel
    continueOnFailure,  \* QualityRunner.continueOnFailure
    timeout,            \* QualityRunner.timeout
    gates,              \* QualityRunner.gates: sequence of {gate, enabled}
    context,            \* the context run is called with
    rpc,                \* position of QualityRunner.run
    idx,                \* sequential mode: index of the gate being awaited
    results,            \* the `results` array of run
    tpc,                \* per entry: position of the Runner's task for it
    tres,               \* per entry: the value the parallel task returned
    rtimer,             \* per entry: countdown of _runGateWithTimeout's timer
    summary,            \* the RunSummary of run, once generated
    runEvents,          \* what the Runner has emitted, in order
    batchResults,       \* ResultReporter.batchResults
    gpc,                \* per gate: position of BaseQualityGate.run
    attempts,           \* per gate: local `attempts` of run
    lastError,          \* per gate: local `lastError` of run
    gtimer,             \* per gate: countdown of executeWithTimeout's timer
    sleepT,             \* per gate: countdown of sleep(1000 * attempts)
    execCalls,          \* per gate: number of invocations of execute
    abandoned,          \* per gate: executes still running after their deadline
    gval,               \* per gate: what run resolved or rejected with
    emitted,            \* per gate: what the gate has emitted, in order
    enabled,            \* ResultReporter.enabled
    taskId,             \* ResultReporter.taskId
    batchMode,          \* ResultReporter.batchMode
    storageAdapter,     \* ResultReporter.storageAdapter: is there one
    reportMetadata,     \* ResultReporter.reportMetadata
    now,                \* the wall clock `new Date()` reads
    storeCalls,         \* the calls of storageAdapter.storeQualityResult, in order
    repEvents,          \* what the Reporter has emitted, in order
    input,              \* a Result sequence a caller holds for generateSummary
    summaries,          \* what the caller's calls of generateSummary returned
    reports,            \* the caller's calls of reportResult, in order
    fpc,                \* position of the flushBatch call in flight
    fpos,               \* flushBatch: index of the entry the for-of loop is at
    fsum,               \* flushBatch: its local `summary`
    flushes,            \* what the calls of flushBatch returned
    registry,           \* index.js gateRegistry: the gate types registered
    gateTypes,          \* the gate types a caller passes to createWithGates
    built,              \* what the calls of the factory functions ended with
    execPc,             \* position of TestRunnerGate.execute
    execContext,        \* the context TestRunnerGate.execute is called with
    tempFiles,          \* the temp directory on disk: whether it exists, and its files
    fsLog,              \* the file system and process calls of execute, in order
    execRet,            \* what execute returns
    gateOptions,        \* the options a lint or security gate was built with
    failureThreshold,   \* BaseQualityGate.failureThreshold of that gate
    issues,             \* the issues the gate's analysis found, in order
    verdicts,           \* what the calls of shouldFail and execute returned
    fieldGates,         \* QualityRunner.gates once it is another array than the run walks
    edits,              \* the calls of addGate and removeGate, in order
    runs                \* per call of run on a Runner in shared use: its position and locals

cfgVars == <<parallel, continueOnFailure, timeout, gates, context>>
runVars == <<rpc, idx, results, tpc, tres, rtimer, summary, runEvents, batchResults>>
gateVars == <<gpc, attempts, lastError, gtimer, sleepT, execCalls, abandoned, gval, emitted>>
repCfg == <<enabled, taskId, batchMode, storageAdapter, reportMetadata>>
repLog == <<now, storeCalls, repEvents>>
callVars == <<input, summaries, reports>>
flushVars == <<fpc, fpos, fsum, flushes>>
repVars == <<repCfg, repLog, callVars, flushVars>>
factVars == <<registry, gateTypes, built>>
execVars == <<execPc, execContext, tempFiles, fsLog, execRet>>
policyVars == <<gateOptions, failureThreshold, issues, verdicts>>
editVars == <<fieldGates, edits>>
extVars == <<policyVars, editVars, runs>>
libVars == <<factVars, execVars, extVars>>
vars == <<cfgVars, runVars, gateVars, repVars, libVars>>

Slots == 1..NumGates

\* a timer that is not pending (cleared, fired, or never set)
Off == 0 - 1

None == [kind |-> "none"]

\* the JavaScript null
null == "null"

\* the object {}
EmptyObject == [x \in {} |-> x]

----------------------------------------------------------------------------
(* Errors.  A message is modelled by the parts the code formats into it.   *)

\* new Error(`Gate ${name} timed out after ${ms}ms`)
TimeoutError(name, ms) == [kind |-> "timeout", gate |-> name, ms |-> ms]

\* an Error raised by the k-th invocation of execute
ThrownError(k) == [kind |-> "thrown", attempt |-> k]

\* TypeError: Cannot read properties of undefined (reading 'message')
TypeError == [kind |-> "TypeError"]

\* this.emit(type, data)
Emitted(type, data) == [type |-> type, data |-> data]

----------------------------------------------------------------------------
(* Status vocabularies found in the source.                                *)

\* what the built-in gates' execute returns
ExecStatuses == {"pass", "fail", "skip", "error", "warning"}

\* what a duck-typed gate's run returns (the mock gate of the storage test)
CustomStatuses == {"passed", "failed"}

----------------------------------------------------------------------------
(* Configuration: what the constructors and addGate accept.                *)

\* options.retryCount || 0 : any number the caller passes is kept, also a
\* negative one; 0..MaxRetry and one negative value are explored
RetryCounts(R) == (0..R) \cup {0 - 1}

\* a BaseQualityGate as its constructor leaves it; a gate that is disabled
\* never reads timeout or retryCount, so one such gate is enough
BaseGates(n, R) ==
    {[name |-> n, kind |-> "base", enabled |-> TRUE, timeout |-> t, retryCount |-> r] :
        t \in 1..MaxTimeout, r \in RetryCounts(R)}
    \cup {[name |-> n, kind |-> "base", enabled |-> FALSE, timeout |-> 1, retryCount |-> 0]}

\* a duck-typed gate {name, run}: the Runner only calls gate.run and reads gate.name
CustomGates(n) ==
    {[name |-> n, kind |-> "custom", enabled |-> TRUE, timeout |-> 1, retryCount |-> 0]}

\* addGate(gate, options): {gate, options, enabled: options.enabled !== false};
\* a disabled entry's gate is never touched, so one such entry is enough
addGate(n, R) ==
    {[gate |-> g, enabled |-> TRUE] : g \in BaseGates(n, R) \cup CustomGates(n)}
    \cup {[gate |-> CHOOSE g \in CustomGates(n) : TRUE, enabled |-> FALSE]}

\* the gate lists of n entries addGate can build: entry i is named i
GateLists(n, R) ==
    {q \in [1..n -> UNION {addGate(i, R) : i \in 1..n}] : \A i \in 1..n : q[i].gate.name = i}

N == Len(gates)

Entries == 1..N

\* new ResultReporter(options): the options are drawn from the sets given;
\* no call of the Reporter has been made yet
NewReporter(enableds, taskIds, batchModes, adapters, metadatas) ==
    /\ enabled \in enableds
    /\ taskId \in taskIds
    /\ batchMode \in batchModes
    /\ storageAdapter \in adapters
    /\ reportMetadata \in metadatas
    /\ batchResults = <<>>
    /\ now = 0
    /\ storeCalls = <<>>
    /\ repEvents = <<>>
    /\ summaries = <<>>
    /\ reports = <<>>
    /\ fpc = "idle"
    /\ fpos = 0
    /\ fsum = None
    /\ flushes = <<>>

\* new ResultReporter({}), which is what new QualityRunner({...}) makes
\* unless it is given a reporter, taskId, storageAdapter, batchMode or metadata
DefaultReporter == NewReporter({TRUE}, {null}, {FALSE}, {FALSE}, {EmptyObject})

\* run has not been called
NotRun ==
    /\ rpc = "idle"
    /\ idx = 0
    /\ results = <<>>
    /\ tpc = [i \in Slots |-> "none"]
    /\ tres = [i \in Slots |-> None]
    /\ rtimer = [i \in Slots |-> Off]
    /\ summary = None
    /\ runEvents = <<>>
    /\ gpc = [i \in Slots |-> "idle"]
    /\ attempts = [i \in Slots |-> 0]
    /\ lastError = [i \in Slots |-> None]
    /\ gtimer = [i \in Slots |-> Off]
    /\ sleepT = [i \in Slots |-> Off]
    /\ execCalls = [i \in Slots |-> 0]
    /\ abandoned = [i \in Slots |-> 0]
    /\ gval = [i \in Slots |-> None]
    /\ emitted = [i \in Slots |-> <<>>]

\* the gate types index.js registers when it is loaded, lines 16-19
BuiltIn == {"eslint", "test", "security", "complexity"}

\* no factory function has been called
FactoryUnused ==
    /\ registry = BuiltIn
    /\ gateTypes = <<>>
    /\ built = <<>>

\* there is no temp directory on disk
NoDir == [exists |-> FALSE]

\* the temp directory is on disk, with these files
Dir(files) == [exists |-> TRUE, files |-> files]

\* TestRunnerGate.execute has not been called and there is no temp directory
TestGateIdle ==
    /\ execPc = "idle"
    /\ execContext = EmptyObject
    /\ tempFiles = NoDir
    /\ fsLog = <<>>
    /\ execRet = None

\* this.failureThreshold = options.failureThreshold || 1, line 225
FailureThreshold(options) ==
    IF "failureThreshold" \in DOMAIN options /\ options.failureThreshold # 0
    THEN options.failureThreshold
    ELSE 1

\* a gate built with the options given; its analysis has found nothing yet
GateBuilt(options) ==
    /\ gateOptions = options
    /\ failureThreshold = FailureThreshold(options)
    /\ issues = <<>>
    /\ verdicts = <<>>

\* no call is made other than those of the Runner, the Reporter, the
\* factory functions and TestRunnerGate.execute
\* this.gates is the array the constructor made, line 16
SameArray == [same |-> TRUE]

\* this.gates is another array, with the entries given
OtherArray(list) == [same |-> FALSE, list |-> list]

\* neither addGate nor removeGate has been called since the gate list was built
Unedited ==
    /\ fieldGates = SameArray
    /\ edits = <<>>

RunIds == 1..NumRuns

\* a call of run that has not been made: its position and its locals
RunNotCalled ==
    [pc |-> "idle", idx |-> 0, results |-> <<>>, reported |-> <<>>,
     walk |-> SameArray, fpos |-> 0, fsum |-> None, call |-> 0, summary |-> None]

\* the Runner is not in shared use
NoRuns == runs = [r \in RunIds |-> RunNotCalled]

ExtensionsUnused == GateBuilt(EmptyObject) /\ Unedited /\ NoRuns

LibraryUnused == FactoryUnused /\ TestGateIdle /\ ExtensionsUnused

\* a Runner as its constructor and addGate leave it, before run is called
Constructed(lists) ==
    /\ parallel \in BOOLEAN
    /\ continueOnFailure \in BOOLEAN
    /\ timeout \in 1..MaxTimeout
    /\ gates \in lists
    /\ context = EmptyObject
    /\ NotRun
    /\ DefaultReporter
    /\ input = <<>>
    /\ LibraryUnused

\* a Runner with up to NumGates gates, each retrying up to RunRetry times
Init == Constructed(UNION {GateLists(n, RunRetry) : n \in 0..NumGates})

\* a Runner with one gate, retrying up to MaxRetry times
InitGate == Constructed(GateLists(1, MaxRetry))

----------------------------------------------------------------------------
(* BaseQualityGate.run, src/src/gates/ESLintGate.js:239-302                *)

\* the Result of a disabled gate, lines 240-246
GateSkipped(g) == [status |-> "skipped", gate |-> g.name, reason |-> "Gate is disabled"]

\* GateSuccess with a slip: attempts is the number of retries, not of attempts
GateSuccessRetriesOnly(g, st, att, call) ==
    [status |-> st, payload |-> call, gate |-> g.name, attempts |-> att]

\* the Result of a successful attempt, lines 268-273: {...result, gate, duration,
\* attempts: attempts + 1}; payload names the invocation that produced it
GateSuccess(g, st, att, call) ==
    [status |-> st, payload |-> call, gate |-> g.name, attempts |-> att + 1]

\* the Result after the loop, lines 293-301
GateFailure(g, err, att) ==
    [status |-> "error", gate |-> g.name, error |-> err, details |-> [attempts |-> att]]

\* Backoff with a slip: the wait is the same before every retry
BackoffConstant(att) == BaseDelay

\* the wait before the next attempt, line 287: sleep(1000 * attempts)
Backoff(att) == BaseDelay * att

\* RetryEvent with a slip: the attempts are numbered from 0
RetryEventFromZero(g, att, err) ==
    Emitted("retry", [gate |-> g.name, attempt |-> att - 1, error |-> err])

\* this.emit('retry', {gate, attempt: attempts, error: error.message}), lines 279-283
RetryEvent(g, att, err) ==
    Emitted("retry", [gate |-> g.name, attempt |-> att, error |-> err])

\* this.emit('complete', {gate, status, duration, attempts: attempts + 1}), lines 261-266
CompleteEvent(g, st, att) ==
    Emitted("complete", [gate |-> g.name, status |-> st, attempts |-> att + 1])

\* the first synchronous stretch of gate.run(code, context) for entry i:
\* where run stands once it has to wait, and what it settled with if it did
RunEntryPc(g) ==
    IF g.kind = "custom" THEN "custom"
    ELSE IF ~g.enabled THEN "resolved"
    ELSE IF 0 <= g.retryCount THEN "executing"
    ELSE "rejected"

RunEntryVal(g) ==
    IF g.kind = "custom" THEN None
    ELSE IF ~g.enabled THEN GateSkipped(g)
    ELSE IF 0 <= g.retryCount THEN None
    ELSE TypeError

\* gate.run is called for every entry in S (one entry in sequential mode,
\* every enabled entry in parallel mode)
CallRun(S) ==
    /\ gpc' = [i \in Slots |-> IF i \in S THEN RunEntryPc(gates[i].gate) ELSE gpc[i]]
    /\ gval' = [i \in Slots |-> IF i \in S THEN RunEntryVal(gates[i].gate) ELSE gval[i]]
    /\ attempts' = [i \in Slots |-> IF i \in S THEN 0 ELSE attempts[i]]
    /\ lastError' = [i \in Slots |-> IF i \in S THEN None ELSE lastError[i]]
    /\ execCalls' = [i \in Slots |->
            IF i \in S /\ RunEntryPc(gates[i].gate) = "executing" THEN execCalls[i] + 1
            ELSE execCalls[i]]
    /\ gtimer' = [i \in Slots |->
            IF i \in S /\ RunEntryPc(gates[i].gate) = "executing" THEN gates[i].gate.timeout
            ELSE gtimer[i]]
    /\ UNCHANGED <<sleepT, abandoned, emitted>>

\* Caught with a slip: the loop gives up one attempt early (< for <=)
CaughtOneShort(i, err) ==
    LET g == gates[i].gate
        att == attempts[i] + 1
    IN  /\ lastError' = [lastError EXCEPT ![i] = err]
        /\ attempts' = [attempts EXCEPT ![i] = att]
        /\ gtimer' = [gtimer EXCEPT ![i] = Off]
        /\ IF att < g.retryCount
           THEN /\ gpc' = [gpc EXCEPT ![i] = "sleeping"]
                /\ sleepT' = [sleepT EXCEPT ![i] = Backoff(att)]
                /\ emitted' = [emitted EXCEPT ![i] = Append(@, RetryEvent(g, att, err))]
                /\ UNCHANGED gval
           ELSE /\ gpc' = [gpc EXCEPT ![i] = "resolved"]
                /\ gval' = [gval EXCEPT ![i] = GateFailure(g, err, att)]
                /\ UNCHANGED <<sleepT, emitted>>

\* the catch block of run, lines 275-289, and the return after the loop
Caught(i, err) ==
    LET g == gates[i].gate
        att == attempts[i] + 1
    IN  /\ lastError' = [lastError EXCEPT ![i] = err]
        /\ attempts' = [attempts EXCEPT ![i] = att]
        /\ gtimer' = [gtimer EXCEPT ![i] = Off]
        /\ IF att <= g.retryCount
           THEN /\ gpc' = [gpc EXCEPT ![i] = "sleeping"]
                /\ sleepT' = [sleepT EXCEPT ![i] = Backoff(att)]
                /\ emitted' = [emitted EXCEPT ![i] = Append(@, RetryEvent(g, att, err))]
                /\ UNCHANGED gval
           ELSE /\ gpc' = [gpc EXCEPT ![i] = "resolved"]
                /\ gval' = [gval EXCEPT ![i] = GateFailure(g, err, att)]
                /\ UNCHANGED <<sleepT, emitted>>

\* execute returns a Result with status st before the deadline
ExecuteReturns(i, st) ==
    /\ gpc[i] = "executing"
    /\ gpc' = [gpc EXCEPT ![i] = "resolved"]
    /\ gval' = [gval EXCEPT ![i] = GateSuccess(gates[i].gate, st, attempts[i], execCalls[i])]
    /\ gtimer' = [gtimer EXCEPT ![i] = Off]
    /\ emitted' = [emitted EXCEPT ![i] = Append(@, CompleteEvent(gates[i].gate, st, attempts[i]))]
    /\ UNCHANGED <<attempts, lastError, sleepT, execCalls, abandoned>>
    /\ UNCHANGED <<libVars, cfgVars, runVars, repVars>>

\* execute raises before the deadline
ExecuteThrows(i) ==
    /\ gpc[i] = "executing"
    /\ Caught(i, ThrownError(execCalls[i]))
    /\ UNCHANGED <<execCalls, abandoned>>
    /\ UNCHANGED <<libVars, cfgVars, runVars, repVars>>

\* executeWithTimeout's timer fires, lines 309-311: the promise is rejected,
\* the call of execute it was waiting for is left running
GateTimerFires(i) ==
    /\ gpc[i] = "executing"
    /\ gtimer[i] = 0
    /\ Caught(i, TimeoutError(gates[i].gate.name, gates[i].gate.timeout))
    /\ abandoned' = [abandoned EXCEPT ![i] = @ + 1]
    /\ UNCHANGED execCalls
    /\ UNCHANGED <<libVars, cfgVars, runVars, repVars>>

\* sleep(1000 * attempts) is over, line 287: the while loop makes the next attempt
SleepEnds(i) ==
    /\ gpc[i] = "sleeping"
    /\ sleepT[i] = 0
    /\ gpc' = [gpc EXCEPT ![i] = "executing"]
    /\ sleepT' = [sleepT EXCEPT ![i] = Off]
    /\ gtimer' = [gtimer EXCEPT ![i] = gates[i].gate.timeout]
    /\ execCalls' = [execCalls EXCEPT ![i] = @ + 1]
    /\ UNCHANGED <<attempts, lastError, abandoned, gval, emitted>>
    /\ UNCHANGED <<libVars, cfgVars, runVars, repVars>>

\* an execute whose deadline has passed settles at last: clearTimeout and
\* resolve/reject on the settled promise change nothing, lines 314-320
AbandonedSettles(i) ==
    /\ abandoned[i] > 0
    /\ abandoned' = [abandoned EXCEPT ![i] = @ - 1]
    /\ UNCHANGED <<gpc, attempts, lastError, gtimer, sleepT, execCalls, gval, emitted>>
    /\ UNCHANGED <<libVars, cfgVars, runVars, repVars>>

\* a duck-typed gate's run resolves with a Result of its own making
CustomResolves(i, st) ==
    /\ gpc[i] = "custom"
    /\ gpc' = [gpc EXCEPT ![i] = "resolved"]
    /\ gval' = [gval EXCEPT ![i] = [status |-> st, gate |-> gates[i].gate.name]]
    /\ UNCHANGED <<attempts, lastError, gtimer, sleepT, execCalls, abandoned, emitted>>
    /\ UNCHANGED <<libVars, cfgVars, runVars, repVars>>

\* a duck-typed gate's run rejects
CustomRejects(i) ==
    /\ gpc[i] = "custom"
    /\ gpc' = [gpc EXCEPT ![i] = "rejected"]
    /\ gval' = [gval EXCEPT ![i] = ThrownError(0)]
    /\ UNCHANGED <<attempts, lastError, gtimer, sleepT, execCalls, abandoned, emitted>>
    /\ UNCHANGED <<libVars, cfgVars, runVars, repVars>>

----------------------------------------------------------------------------
(* ResultReporter, src/src/ResultReporter.js                               *)

\* the task ids a caller passes
TaskIds == {"t1", "t2"}

\* {...this.reportMetadata, ...result.metadata}, lines 57-60
MergedMetadata(result) ==
    IF "metadata" \in DOMAIN result THEN result.metadata @@ reportMetadata
    ELSE reportMetadata

\* enhancedResult with a slip: the id of the task is left out
enhancedResultNoTask(gateName, result) ==
    [gateName |-> gateName, timestamp |-> now, metadata |-> MergedMetadata(result)] @@ result

\* the enhancedResult of reportResult, lines 52-61
enhancedResult(gateName, result) ==
    [gateName |-> gateName, taskId |-> taskId, timestamp |-> now,
     metadata |-> MergedMetadata(result)] @@ result

\* storageAdapter.storeQualityResult(this.taskId, gateName, result), called by `by`
\* its promise is pending until the adapter answers
StoreCall(by, gateName, result) ==
    [by |-> by, taskId |-> taskId, gateName |-> gateName, result |-> result,
     outcome |-> "pending"]

\* the adapter answers the id-th storage call: its promise resolves with
\* {id} or rejects
Answered(id, ok) ==
    [storeCalls EXCEPT ![id].outcome = IF ok THEN "resolved" ELSE "rejected"]

\* the storage call the caller `by` is waiting for
Awaited(by) ==
    CHOOSE id \in 1..Len(storeCalls) :
        storeCalls[id].by = by /\ storeCalls[id].outcome = "pending"

\* the variables of the Runner the Reporter does not touch
runOnly == <<rpc, idx, results, tpc, tres, rtimer, summary, runEvents>>

\* the variables of the Reporter a run's reports leave alone
repRest == <<enabled, taskId, storageAdapter, reportMetadata, now, storeCalls,
             callVars, flushVars>>

\* is there a storage adapter and a task id, lines 73 and 124
MayStore == storageAdapter /\ taskId # null

\* a call of reportResult(gateName, result), lines 46-79: up to its return or
\* up to the await of the storage call
ReportResult(gateName, result) ==
    /\ Len(reports) < MaxReports
    /\ LET e == enhancedResult(gateName, result)
           call == [gateName |-> gateName, result |-> result, batch |-> batchMode]
       IN  IF ~enabled
           THEN /\ reports' = Append(reports, call @@ [pc |-> "returned", ret |-> result])
                /\ UNCHANGED <<batchResults, storeCalls, repEvents>>
           ELSE /\ repEvents' = Append(repEvents, Emitted("result", e))
                /\ IF batchMode
                   THEN /\ batchResults' = Append(batchResults, e)
                        /\ reports' = Append(reports, call @@ [pc |-> "returned", ret |-> e])
                        /\ UNCHANGED storeCalls
                   ELSE IF MayStore
                   THEN /\ storeCalls' = Append(storeCalls, StoreCall("reportResult", gateName, result))
                        /\ reports' = Append(reports, call @@
                                [pc |-> "storing", ret |-> e, id |-> Len(storeCalls) + 1])
                        /\ UNCHANGED batchResults
                   ELSE /\ reports' = Append(reports, call @@ [pc |-> "returned", ret |-> e])
                        /\ UNCHANGED <<batchResults, storeCalls>>
    /\ UNCHANGED <<repCfg, now, input, summaries, flushVars>>
    /\ UNCHANGED <<libVars, cfgVars, runOnly, gateVars>>

\* Marked with a slip: the object is marked stored whatever the adapter answered
MarkedAlwaysStored(entry, ok, id) == [stored |-> TRUE, storageId |-> id] @@ entry

\* what the code writes on an object once its storage call has settled,
\* lines 80-81 and 84-85, 132-133 and 136-137, 220-221 and 223-224
Marked(entry, ok, id) ==
    IF ok THEN [stored |-> TRUE, storageId |-> id] @@ entry
    ELSE [stored |-> FALSE, storageError |-> "storage failed"] @@ entry

\* the storage call of the k-th reportResult settles, lines 75-89
ReportStoreSettles(k, ok) ==
    /\ reports[k].pc = "storing"
    /\ reports' = [reports EXCEPT ![k].pc = "returned",
                                  ![k].ret = Marked(@, ok, reports[k].id)]
    /\ storeCalls' = Answered(reports[k].id, ok)
    /\ UNCHANGED <<repCfg, now, repEvents, input, summaries, flushVars>>
    /\ UNCHANGED <<libVars, cfgVars, runVars, gateVars>>

\* the end of flushBatch, lines 144-150
FlushEnds(sum) ==
    /\ batchResults' = <<>>
    /\ repEvents' = Append(repEvents, Emitted("batch-flushed", sum))
    /\ flushes' = Append(flushes, sum)
    /\ fpc' = "idle"
    /\ fpos' = 0
    /\ fsum' = None

\* flushBatch with a slip: an empty batch is flushed like any other
flushBatchAlways ==
    /\ fpc = "idle"
    /\ FlushEnds([total |-> Len(batchResults), stored |-> 0, failed |-> 0, results |-> <<>>])
    /\ UNCHANGED storeCalls

\* a call of flushBatch, lines 112-131: up to its return or up to the await
\* of the first storage call
flushBatch ==
    /\ fpc = "idle"
    /\ IF ~batchMode \/ Len(batchResults) = 0
       THEN /\ flushes' = Append(flushes, [flushed |-> 0])
            /\ UNCHANGED <<batchResults, storeCalls, repEvents, fpc, fpos, fsum>>
       ELSE LET sum == [total |-> Len(batchResults), stored |-> 0, failed |-> 0,
                        results |-> <<>>]
            IN  IF MayStore
                THEN /\ fpc' = "storing"
                     /\ fpos' = 1
                     /\ fsum' = sum
                     /\ storeCalls' = Append(storeCalls,
                            StoreCall("flushBatch", batchResults[1].gateName, batchResults[1]))
                     /\ UNCHANGED <<batchResults, repEvents, flushes>>
                ELSE /\ FlushEnds(sum)
                     /\ UNCHANGED storeCalls

\* a caller calls flushBatch
FlushBatch ==
    /\ Len(flushes) < MaxFlushes
    /\ flushBatch
    /\ UNCHANGED <<repCfg, now, callVars>>
    /\ UNCHANGED <<libVars, cfgVars, runOnly, gateVars>>

\* the storage call flushBatch awaits settles, lines 132-142: the entry is
\* marked and pushed, and the for-of loop, which walks the array
\* this.batchResults as it is by then, goes to the next entry or ends
FlushStoreSettles(ok) ==
    /\ fpc = "storing"
    /\ LET marked == Marked(batchResults[fpos], ok, Awaited("flushBatch"))
           answered == Answered(Awaited("flushBatch"), ok)
           batch == [batchResults EXCEPT ![fpos] = marked]
           sum == [fsum EXCEPT !.stored = IF ok THEN @ + 1 ELSE @,
                               !.failed = IF ok THEN @ ELSE @ + 1,
                               !.results = Append(@, marked)]
       IN  IF fpos < Len(batchResults)
           THEN /\ batchResults' = batch
                /\ fsum' = sum
                /\ fpos' = fpos + 1
                /\ storeCalls' = Append(answered,
                        StoreCall("flushBatch", batch[fpos + 1].gateName, batch[fpos + 1]))
                /\ UNCHANGED <<fpc, repEvents, flushes>>
           ELSE /\ FlushEnds(sum)
                /\ storeCalls' = answered
    /\ UNCHANGED <<repCfg, now, callVars>>
    /\ UNCHANGED <<libVars, cfgVars, runOnly, gateVars>>

\* setTaskContext(t), lines 36-38
setTaskContext(t) ==
    /\ taskId' = t
    /\ UNCHANGED <<enabled, batchMode, storageAdapter, reportMetadata>>
    /\ UNCHANGED <<repLog, callVars, flushVars>>
    /\ UNCHANGED <<libVars, cfgVars, runVars, gateVars>>

\* the wall clock moves on
ClockAdvances ==
    /\ now < MaxClock
    /\ now' = now + 1
    /\ UNCHANGED <<repCfg, storeCalls, repEvents, callVars, flushVars>>
    /\ UNCHANGED <<libVars, cfgVars, runVars, gateVars>>

\* how many Results of a sequence have the status st
RECURSIVE CountStatus(_, _)
CountStatus(rs, st) ==
    IF rs = <<>> THEN 0
    ELSE (IF Head(rs).status = st THEN 1 ELSE 0) + CountStatus(Tail(rs), st)

\* result.gateName || result.gate, line 178
GateKey(r) == IF "gateName" \in DOMAIN r THEN r.gateName ELSE r.gate

\* the Results of a sequence that belong to the gate named n
ResultsOf(rs, n) == SelectSeq(rs, LAMBDA r : GateKey(r) = n)

\* Score with a slip: the division is made whatever the total is
ScoreUnguarded(passed, total) == <<passed * 100, total>>

\* summary.score, line 199: (passed / total) * 100 is a fraction, kept as the
\* pair <<numerator, denominator>>; 0 when total is 0
Score(passed, total) == IF total > 0 THEN <<passed * 100, total>> ELSE <<0, 1>>

\* generateSummary(results), lines 158-202
generateSummary(rs) ==
    LET passed == CountStatus(rs, "passed")
        failed == CountStatus(rs, "failed")
        skipped == CountStatus(rs, "skipped")
        errors == CountStatus(rs, "error")
        names == {GateKey(rs[k]) : k \in 1..Len(rs)}
    IN  [total |-> Len(rs),
         passed |-> passed,
         failed |-> failed,
         skipped |-> skipped,
         errors |-> errors,
         gates |-> [n \in names |->
                      [total |-> Len(ResultsOf(rs, n)),
                       passed |-> CountStatus(ResultsOf(rs, n), "passed"),
                       failed |-> CountStatus(ResultsOf(rs, n), "failed"),
                       results |-> ResultsOf(rs, n)]],
         timestamp |-> now,
         taskId |-> taskId,
         overallStatus |-> IF failed > 0 \/ errors > 0 THEN "failed" ELSE "passed",
         score |-> Score(passed, Len(rs))]

\* a caller calls generateSummary on the Result sequence it holds
GenerateSummary ==
    /\ Len(summaries) < MaxSummaries
    /\ summaries' = Append(summaries, generateSummary(input))
    /\ UNCHANGED <<repCfg, repLog, input, reports, flushVars>>
    /\ UNCHANGED <<libVars, cfgVars, runVars, gateVars>>

\* the Runner reports the Results rs one after the other, lines 103, 116, 137,
\* 163, 173 and 188: batchMode is true during a run, so reportResult emits
\* and pushes, and returns before anything else runs
ReportAll(rs) ==
    LET es == [k \in 1..Len(rs) |-> enhancedResult(rs[k].gate, rs[k])]
    IN  IF enabled
        THEN /\ batchResults' = batchResults \o es
             /\ repEvents' = repEvents \o [k \in 1..Len(rs) |-> Emitted("result", es[k])]
        ELSE UNCHANGED <<batchResults, repEvents>>

----------------------------------------------------------------------------
(* QualityRunner, src/src/QualityRunner.js                                 *)

\* the Result the Runner makes for a disabled entry, lines 98-102 and 158-162
RunnerSkipped(g) == [status |-> "skipped", gate |-> g.name, reason |-> "Gate disabled"]

\* RunnerError with a slip: the caught error is recorded under the status failed
RunnerErrorAsFailed(g, err) == [status |-> "failed", gate |-> g.name, error |-> err]

\* the Result the Runner makes in its catch block, lines 130-135 and 181-186
RunnerError(g, err) == [status |-> "error", gate |-> g.name, error |-> err]

\* GateEvents with a slip: the catch block emits nothing
GateEventsSilentCatch(g, r, end) ==
    IF end = "completed"
    THEN <<Emitted("gate-completed", [gate |-> g.name, result |-> r])>>
    ELSE <<>>

\* what a gate's task emits once its Result r is reported: gate-completed
\* at the end of the try block, lines 118-121 and 174-177, gate-error in the
\* catch block, lines 139-142 and 190-193
GateEvents(g, r, end) ==
    IF end = "completed"
    THEN <<Emitted("gate-completed", [gate |-> g.name, result |-> r])>>
    ELSE <<Emitted("gate-error", [gate |-> g.name, error |-> r.error])>>

\* what _runSequential emits when it breaks out of its loop: run-stopped in
\* the try block, lines 122-128, nothing in the catch block, lines 144-146
StopEvents(g, end, stop) ==
    IF stop /\ end = "completed"
    THEN <<Emitted("run-stopped", [reason |-> "Gate failed", gate |-> g.name])>>
    ELSE <<>>

\* this.emit('gate-started', gate.name), lines 109 and 167
GateStarted(g) == Emitted("gate-started", g.name)

\* RunnerTimer with a slip: the deadline is the gate's own timeout
RunnerTimerOfGate(g) == g.timeout

\* the delay of the timer _runGateWithTimeout sets for a gate, lines 208-210:
\* this.timeout, whatever the gate
RunnerTimer(g) == timeout

\* gate.run has settled and its continuation has not run yet
Settled(i) == gpc[i] \in {"resolved", "rejected"}

\* what the try/catch around `await this._runGateWithTimeout(...)` ends with
\* when gate.run settles first
Outcome(i) ==
    IF gpc[i] = "resolved" THEN gval[i] ELSE RunnerError(gates[i].gate, gval[i])

\* the stop condition of _runSequential after a Result, line 122
StopsAfterResult(r) == ~continueOnFailure /\ r.status = "failed"

\* the stop condition of _runSequential in its catch block, line 145
StopsAfterError == ~continueOnFailure

\* the first enabled entry after entry i, N + 1 if there is none
NextEntry(i) ==
    IF \E j \in (i+1)..N : gates[j].enabled
    THEN CHOOSE j \in (i+1)..N : gates[j].enabled /\ \A k \in (i+1)..(j-1) : ~gates[k].enabled
    ELSE N + 1

\* the skip Results of the disabled entries strictly between i and j, lines 97-106
SkippedRun(i, j) == [k \in 1..(j - i - 1) |-> RunnerSkipped(gates[i + k].gate)]

\* the for loop of _runSequential from the end of entry i's iteration on:
\* `pushed` is what that iteration appended, `stop` whether it ended with break
\* and `end` how its task ended
SeqLoop(i, pushed, stop, end) ==
    LET j == IF stop THEN N + 1 ELSE NextEntry(i)
        new == pushed \o (IF stop THEN <<>> ELSE SkippedRun(i, j))
        ended == IF i = 0 THEN <<>>
                 ELSE GateEvents(gates[i].gate, pushed[1], end)
                      \o StopEvents(gates[i].gate, end, stop)
        started == IF j <= N THEN <<GateStarted(gates[j].gate)>> ELSE <<>>
    IN  /\ results' = results \o new
        /\ ReportAll(new)
        /\ runEvents' = runEvents \o ended \o started
        /\ idx' = j
        /\ tres' = tres
        /\ summary' = summary
        /\ IF j <= N
           THEN /\ rpc' = "gates"
                /\ tpc' = [k \in Slots |-> IF k = j THEN "awaiting"
                                           ELSE IF k = i THEN end
                                           ELSE IF i < k /\ k < j THEN "skipped" ELSE tpc[k]]
                /\ rtimer' = [k \in Slots |-> IF k = j THEN RunnerTimer(gates[j].gate)
                                              ELSE IF k = i THEN Off ELSE rtimer[k]]
                /\ CallRun({j})
           ELSE /\ rpc' = "joined"
                /\ tpc' = [k \in Slots |-> IF k = i THEN end
                                           ELSE IF i < k /\ k <= N /\ ~stop THEN "skipped"
                                           ELSE tpc[k]]
                /\ rtimer' = [k \in Slots |-> IF k = i THEN Off ELSE rtimer[k]]
                /\ UNCHANGED gateVars

\* run with a slip: the task id of the context is not handed to the Reporter
runWithoutTask ==
    /\ rpc = "idle"
    /\ rpc' = "started"
    /\ batchMode' = TRUE
    /\ runEvents' = Append(runEvents, Emitted("run-started", [gates |-> N, context |-> context]))
    /\ UNCHANGED <<idx, results, tpc, tres, rtimer, summary, batchResults, repEvents>>
    /\ UNCHANGED <<libVars, cfgVars, gateVars, repRest>>

\* run(code, context), lines 52-68: the task id of the context, if it has
\* one, is handed to the Reporter, batch mode is switched on and run-started
\* is emitted; the gates are dispatched next, in the same turn
run ==
    /\ rpc = "idle"
    /\ rpc' = "started"
    /\ taskId' = IF "taskId" \in DOMAIN context THEN context.taskId ELSE taskId
    /\ batchMode' = TRUE
    /\ runEvents' = Append(runEvents, Emitted("run-started", [gates |-> N, context |-> context]))
    /\ UNCHANGED <<idx, results, tpc, tres, rtimer, summary, batchResults, repEvents>>
    /\ UNCHANGED <<enabled, storageAdapter, reportMetadata, now, storeCalls, callVars, flushVars>>
    /\ UNCHANGED <<libVars, cfgVars, gateVars>>

\* run in sequential mode, lines 73-75 and 95-111: up to the first await of a gate
_runSequential ==
    /\ rpc = "started"
    /\ ~parallel
    /\ SeqLoop(0, <<>>, FALSE, "none")
    /\ UNCHANGED <<libVars, cfgVars, batchMode, repRest>>

\* sequential mode, lines 111-128 and 129-148: gate.run settled for the awaited entry
SeqGateSettles(i) ==
    /\ rpc = "gates"
    /\ ~parallel
    /\ tpc[i] = "awaiting"
    /\ Settled(i)
    /\ SeqLoop(i, <<Outcome(i)>>,
               IF gpc[i] = "resolved" THEN StopsAfterResult(gval[i]) ELSE StopsAfterError,
               IF gpc[i] = "resolved" THEN "completed" ELSE "errored")
    /\ UNCHANGED <<libVars, cfgVars, batchMode, repRest>>

\* sequential mode, lines 208-210 and 129-148: the Runner's timer fires first
SeqTimerFires(i) ==
    /\ rpc = "gates"
    /\ ~parallel
    /\ tpc[i] = "awaiting"
    /\ ~Settled(i)
    /\ rtimer[i] = 0
    /\ SeqLoop(i, <<RunnerError(gates[i].gate, TimeoutError(gates[i].gate.name, timeout))>>,
               StopsAfterError, "errored")
    /\ UNCHANGED <<libVars, cfgVars, batchMode, repRest>>

\* Join with a slip: the Results are pushed in the order the tasks completed
JoinInCompletionOrder(tp, tr) ==
    IF \A k \in Entries : tp[k] \in {"completed", "errored", "skipped"}
    THEN /\ rpc' = "joined"
         /\ results' = results \o [k \in 1..Len(batchResults') |->
                                    tr[batchResults'[k].gate]]
    ELSE /\ rpc' = "gates"
         /\ results' = results

\* Join with a slip: the Runner goes on as soon as one task is done
JoinAny(tp, tr) ==
    IF \E k \in Entries : tp[k] \in {"completed", "errored", "skipped"}
    THEN /\ rpc' = "joined"
         /\ results' = results \o SelectSeq([k \in Entries |-> tr[k]], LAMBDA r : r # None)
    ELSE /\ rpc' = "gates"
         /\ results' = results

\* Promise.all and results.push(...parallelResults), lines 199-200, once every task is done
Join(tp, tr) ==
    IF \A k \in Entries : tp[k] \in {"completed", "errored", "skipped"}
    THEN /\ rpc' = "joined"
         /\ results' = results \o [k \in Entries |-> tr[k]]
    ELSE /\ rpc' = "gates"
         /\ results' = results

\* run in parallel mode, lines 69-71 and 155-170: every task up to its first await
_runParallel ==
    /\ rpc = "started"
    /\ parallel
    /\ LET on == {k \in Entries : gates[k].enabled}
           off == SelectSeq([k \in Entries |-> k], LAMBDA k : ~gates[k].enabled)
           tp == [k \in Slots |-> IF k \in on THEN "awaiting"
                                  ELSE IF k \in Entries THEN "skipped" ELSE tpc[k]]
           tr == [k \in Slots |-> IF k \in Entries \ on THEN RunnerSkipped(gates[k].gate)
                                  ELSE tres[k]]
       IN  /\ tpc' = tp
           /\ tres' = tr
           /\ rtimer' = [k \in Slots |-> IF k \in on THEN RunnerTimer(gates[k].gate)
                                         ELSE rtimer[k]]
           /\ ReportAll([k \in 1..Len(off) |-> RunnerSkipped(gates[off[k]].gate)])
           /\ runEvents' = runEvents \o
                   [k \in 1..Cardinality(on) |->
                       GateStarted(gates[CHOOSE i \in on :
                           Cardinality({m \in on : m < i}) = k - 1].gate)]
           /\ CallRun(on)
           /\ Join(tp, tr)
    /\ UNCHANGED <<idx, summary>>
    /\ UNCHANGED <<libVars, cfgVars, batchMode, repRest>>

\* ParTaskEnds with a slip: a task that ends in the catch block takes the
\* tasks still waiting with it
ParTaskEndsAborting(i, r, end) ==
    LET hit == IF end = "errored" THEN {k \in Entries : tpc[k] = "awaiting"} ELSE {i}
        tp == [k \in Slots |-> IF k \in hit THEN end ELSE tpc[k]]
        tr == [k \in Slots |-> IF k \in hit THEN [r EXCEPT !.gate = gates[k].gate.name]
                               ELSE tres[k]]
    IN  /\ tpc' = tp
        /\ tres' = tr
        /\ rtimer' = [k \in Slots |-> IF k \in hit THEN Off ELSE rtimer[k]]
        /\ ReportAll(<<r>>)
        /\ runEvents' = runEvents \o GateEvents(gates[i].gate, r, end)
        /\ Join(tp, tr)
        /\ UNCHANGED <<idx, summary>>
        /\ UNCHANGED <<libVars, cfgVars, gateVars, batchMode, repRest>>

\* the end of one parallel task with Result r, lines 170-196
ParTaskEnds(i, r, end) ==
    LET tp == [tpc EXCEPT ![i] = end]
        tr == [tres EXCEPT ![i] = r]
    IN  /\ tpc' = tp
        /\ tres' = tr
        /\ rtimer' = [rtimer EXCEPT ![i] = Off]
        /\ ReportAll(<<r>>)
        /\ runEvents' = runEvents \o GateEvents(gates[i].gate, r, end)
        /\ Join(tp, tr)
        /\ UNCHANGED <<idx, summary>>
        /\ UNCHANGED <<libVars, cfgVars, gateVars, batchMode, repRest>>

\* parallel mode: gate.run settled for entry i
ParGateSettles(i) ==
    /\ rpc = "gates"
    /\ parallel
    /\ tpc[i] = "awaiting"
    /\ Settled(i)
    /\ ParTaskEnds(i, Outcome(i), IF gpc[i] = "resolved" THEN "completed" ELSE "errored")

\* parallel mode: the Runner's timer of entry i fires first
ParTimerFires(i) ==
    /\ rpc = "gates"
    /\ parallel
    /\ tpc[i] = "awaiting"
    /\ ~Settled(i)
    /\ rtimer[i] = 0
    /\ ParTaskEnds(i, RunnerError(gates[i].gate, TimeoutError(gates[i].gate.name, timeout)),
                   "errored")

\* the tail of run, lines 77-89: flushBatch, which returns without waiting
\* when the Reporter has no storage adapter or no task id, generateSummary,
\* storeSummary (which then returns the summary as it is), return
RunReturns ==
    /\ rpc = "joined"
    /\ ~MayStore
    /\ flushBatch
    /\ rpc' = "done"
    /\ summary' = generateSummary(results)
    /\ runEvents' = Append(runEvents, Emitted("run-completed", summary'))
    /\ UNCHANGED <<idx, results, tpc, tres, rtimer>>
    /\ UNCHANGED <<repCfg, now, callVars>>
    /\ UNCHANGED <<libVars, cfgVars, gateVars>>

\* the tail of run when the Reporter has a storage adapter and a task id,
\* line 77: flushBatch is called and awaited
RunFlushes ==
    /\ rpc = "joined"
    /\ MayStore
    /\ flushBatch
    /\ rpc' = "flushing"
    /\ UNCHANGED <<idx, results, tpc, tres, rtimer, summary, runEvents>>
    /\ UNCHANGED <<repCfg, now, callVars>>
    /\ UNCHANGED <<libVars, cfgVars, gateVars>>

\* lines 80-84 and 209-219: flushBatch has returned; the summary is generated
\* and storeSummary hands it to storage and awaits the answer
RunSummarizes ==
    /\ rpc = "flushing"
    /\ fpc = "idle"
    /\ rpc' = "storing"
    /\ summary' = generateSummary(results)
    /\ storeCalls' = Append(storeCalls, StoreCall("storeSummary", "summary", summary'))
    /\ UNCHANGED <<idx, results, tpc, tres, rtimer, runEvents, batchResults>>
    /\ UNCHANGED <<repCfg, now, repEvents, callVars, flushVars>>
    /\ UNCHANGED <<libVars, cfgVars, gateVars>>

\* StoredSummary with a slip: a summary that could not be stored is a failed one
StoredSummaryDegraded(sum, ok, id) ==
    IF ok THEN Marked(sum, ok, id)
    ELSE [overallStatus |-> "failed", score |-> <<0, 1>>] @@ Marked(sum, ok, id)

\* what storeSummary writes on the summary once storage has answered,
\* lines 220-221 and 223-224
StoredSummary(sum, ok, id) == Marked(sum, ok, id)

\* SummaryStoreSettles with a slip: storeSummary has no catch block, so a
\* rejection of the storage call makes run reject
SummaryStoreRaises(ok) ==
    /\ rpc = "storing"
    /\ storeCalls' = Answered(Awaited("storeSummary"), ok)
    /\ IF ok
       THEN /\ summary' = StoredSummary(summary, ok, Awaited("storeSummary"))
            /\ runEvents' = Append(runEvents, Emitted("run-completed", summary'))
            /\ rpc' = "done"
       ELSE /\ rpc' = "rejected"
            /\ UNCHANGED <<summary, runEvents>>
    /\ UNCHANGED <<idx, results, tpc, tres, rtimer, batchResults>>
    /\ UNCHANGED <<repCfg, now, repEvents, callVars, flushVars>>
    /\ UNCHANGED <<libVars, cfgVars, gateVars>>

\* the storage call of storeSummary settles, lines 214-227, and run ends,
\* lines 86-88: the summary is marked, run-completed is emitted with it and
\* it is returned
SummaryStoreSettles(ok) ==
    /\ rpc = "storing"
    /\ storeCalls' = Answered(Awaited("storeSummary"), ok)
    /\ summary' = StoredSummary(summary, ok, Awaited("storeSummary"))
    /\ runEvents' = Append(runEvents, Emitted("run-completed", summary'))
    /\ rpc' = "done"
    /\ UNCHANGED <<idx, results, tpc, tres, rtimer, batchResults>>
    /\ UNCHANGED <<repCfg, now, repEvents, callVars, flushVars>>
    /\ UNCHANGED <<libVars, cfgVars, gateVars>>

----------------------------------------------------------------------------
(* The factory functions: createGate and registerGate of src/src/index.js, *)
(* createWithGates and createForCI of src/src/QualityRunner.js.            *)

\* the gate types a caller may name: the built-in ones, one it registers
\* itself and one nobody registers
GateTypeNames == BuiltIn \cup {"custom", "typo"}

\* the lists of up to n gate types
TypeLists(n) == UNION {[1..m -> GateTypeNames] : m \in 0..n}

\* new Error(`Unknown quality gate type: ${type}`), index.js line 28
UnknownType(type) == [kind |-> "unknown-type", type |-> type]

\* createGate(type), index.js lines 24-32: what the call ends with
createGate(type) ==
    IF type \in registry THEN [threw |-> FALSE, gate |-> [type |-> type]]
    ELSE [threw |-> TRUE, error |-> UnknownType(type)]

\* the loop of createWithGates, QualityRunner.js lines 238-245: a gate that
\* createGate made is added, an error createGate threw is caught and logged
\* with console.warn
RECURSIVE AddGates(_, _)
AddGates(types, added) ==
    IF types = <<>> THEN added
    ELSE AddGates(Tail(types),
                  IF createGate(Head(types)).threw THEN added
                  ELSE Append(added, createGate(Head(types)).gate))

\* createWithGates(types), QualityRunner.js lines 229-249: what the call ends with
createWithGates(types) == [threw |-> FALSE, gates |-> AddGates(types, <<>>)]

\* the gate types of createForCI, QualityRunner.js line 265
CIGateTypes == <<"eslint", "test", "security", "complexity">>

\* a call of a factory function is recorded with the registry it found
Built(call, types, end) == [call |-> call, types |-> types, known |-> registry] @@ end

\* a caller calls createGate(type)
CreateGate(type) ==
    /\ Len(built) < MaxBuilt
    /\ built' = Append(built, Built("createGate", <<type>>, createGate(type)))
    /\ UNCHANGED <<registry, gateTypes, execVars, extVars>>
    /\ UNCHANGED <<cfgVars, runVars, gateVars, repVars>>

\* a caller calls QualityRunner.createWithGates(gateTypes)
CreateWithGates ==
    /\ Len(built) < MaxBuilt
    /\ built' = Append(built, Built("createWithGates", gateTypes, createWithGates(gateTypes)))
    /\ UNCHANGED <<registry, gateTypes, execVars, extVars>>
    /\ UNCHANGED <<cfgVars, runVars, gateVars, repVars>>

\* a caller calls QualityRunner.createForCI(), QualityRunner.js lines 256-268
CreateForCI ==
    /\ Len(built) < MaxBuilt
    /\ built' = Append(built, Built("createForCI", CIGateTypes, createWithGates(CIGateTypes)))
    /\ UNCHANGED <<registry, gateTypes, execVars, extVars>>
    /\ UNCHANGED <<cfgVars, runVars, gateVars, repVars>>

\* a caller calls registerGate(type, GateClass), index.js lines 37-43, with a
\* class that extends BaseQualityGate or with one that does not
registerGate(type, extends) ==
    /\ type \notin registry
    /\ Len(built) < MaxBuilt
    /\ registry' = IF extends THEN registry \cup {type} ELSE registry
    /\ built' = Append(built, Built("registerGate", <<type>>, [threw |-> ~extends]))
    /\ UNCHANGED <<gateTypes, execVars, extVars>>
    /\ UNCHANGED <<cfgVars, runVars, gateVars, repVars>>

----------------------------------------------------------------------------
(* TestRunnerGate.execute, src/src/gates/TestRunnerGate.js:39-94, with the *)
(* file system calls of createTempTestEnvironment (99-127),                *)
(* detectTestRunner (132-172), runTests (177-227) and cleanupTempDir       *)
(* (398-405).  Any of them may fail.                                       *)

\* the contexts execute is called with
TestContexts ==
    {EmptyObject, [fileName |-> "a.test.js"], [fileName |-> "src/a.test.js"],
     [fileName |-> "a.js", language |-> "typescript"], [language |-> "typescript"]}

\* context.fileName.includes('.test.'), line 105
IncludesTest(f) == f \in {"a.test.js", "src/a.test.js", "generated.test.js", "generated.test.ts"}

\* the name of the test file, lines 104-106
TestFileName(ctx) ==
    IF "fileName" \in DOMAIN ctx /\ IncludesTest(ctx.fileName) THEN ctx.fileName
    ELSE IF "language" \in DOMAIN ctx /\ ctx.language = "typescript" THEN "generated.test.ts"
    ELSE "generated.test.js"

\* path.join(tempDir, fileName) lies in a subdirectory of tempDir, which
\* nothing has created: fs.writeFile fails with ENOENT
Nested(f) == f = "src/a.test.js"

\* an Error raised by the call `op`
OpError(op) == [kind |-> "raised", op |-> op]

\* the catch block of execute, lines 85-93
ExecuteError(err) == [status |-> "error", error |-> err, details |-> [stack |-> err]]

\* detectTestRunner on the files it finds, lines 132-172: the package.json
\* written names no runner, but it is one of jest's configFiles, so fs.access
\* finds it; without it a test file makes it jest, and nothing makes it null
detectTestRunner(files) ==
    IF "package.json" \in files THEN "jest"
    ELSE IF \E f \in files : IncludesTest(f) THEN "jest"
    ELSE null

\* what runTests resolves with: success and the numbers of passed and of
\* failed tests
TestResults == [success : BOOLEAN, passed : 0..MaxTests, failed : 0..MaxTests]

\* the Result of lines 63-78, after analyzeTestResults, lines 384-385
Analyzed(tr, runner, ctx) ==
    [status |-> IF tr.success /\ tr.failed = 0 THEN "pass" ELSE "fail",
     stats |-> [total |-> tr.passed + tr.failed, passed |-> tr.passed, failed |-> tr.failed],
     details |-> [runner |-> runner,
                  testFile |-> IF "fileName" \in DOMAIN ctx THEN ctx.fileName
                               ELSE "generated.test.js"]]

\* the Result of lines 52-58
NoRunner == [status |-> "skip", message |-> "No test runner detected"]

\* a call of the file system or of spawn, and whether it succeeded
Called(op, ok) == Append(fsLog, [op |-> op, ok |-> ok])

\* execute(code, context) is called, lines 39-42 and 99-101: up to the await of fs.mkdir
Execute ==
    /\ execPc = "idle"
    /\ execPc' = "mkdir"
    /\ UNCHANGED <<execContext, tempFiles, fsLog, execRet, factVars, extVars>>
    /\ UNCHANGED <<cfgVars, runVars, gateVars, repVars>>

\* a call of createTempTestEnvironment raised: execute's catch block returns
\* the error Result; tempDir was never assigned and the finally block is
\* not entered
SetupFails(op) ==
    /\ execPc' = "returned"
    /\ execRet' = ExecuteError(OpError(op))
    /\ fsLog' = Called(op, FALSE)
    /\ UNCHANGED tempFiles

\* fs.mkdir settles, line 101
Mkdir(ok) ==
    /\ execPc = "mkdir"
    /\ IF ok
       THEN /\ tempFiles' = Dir({})
            /\ fsLog' = Called("mkdir", TRUE)
            /\ execPc' = "writeTest"
            /\ UNCHANGED execRet
       ELSE SetupFails("mkdir")
    /\ UNCHANGED <<execContext, factVars, extVars>>
    /\ UNCHANGED <<cfgVars, runVars, gateVars, repVars>>

\* fs.writeFile of the test file settles, lines 108-110
WriteTest(ok) ==
    /\ execPc = "writeTest"
    /\ ok => ~Nested(TestFileName(execContext))
    /\ IF ok
       THEN /\ tempFiles' = Dir(tempFiles.files \cup {TestFileName(execContext)})
            /\ fsLog' = Called("writeTest", TRUE)
            /\ execPc' = "writePackage"
            /\ UNCHANGED execRet
       ELSE SetupFails("writeTest")
    /\ UNCHANGED <<execContext, factVars, extVars>>
    /\ UNCHANGED <<cfgVars, runVars, gateVars, repVars>>

\* fs.writeFile of package.json settles, lines 121-126
WritePackage(ok) ==
    /\ execPc = "writePackage"
    /\ IF ok
       THEN /\ tempFiles' = Dir(tempFiles.files \cup {"package.json"})
            /\ fsLog' = Called("writePackage", TRUE)
            /\ execPc' = "detect"
            /\ UNCHANGED execRet
       ELSE SetupFails("writePackage")
    /\ UNCHANGED <<execContext, factVars, extVars>>
    /\ UNCHANGED <<cfgVars, runVars, gateVars, repVars>>

\* the directory lies in os.tmpdir(), which others write to: while execute
\* is about to look for a runner its files, or the directory, are removed
TempDisturbed(whole) ==
    /\ execPc = "detect"
    /\ tempFiles.exists /\ tempFiles.files # {}
    /\ tempFiles' = IF whole THEN NoDir ELSE Dir({})
    /\ UNCHANGED <<execPc, execContext, fsLog, execRet, factVars, extVars>>
    /\ UNCHANGED <<cfgVars, runVars, gateVars, repVars>>

\* detectTestRunner settles, lines 46-59: fs.readdir raises when the
\* directory is gone; without a runner execute returns the skip Result; the
\* finally block comes next either way
Detect ==
    /\ execPc = "detect"
    /\ IF ~tempFiles.exists
       THEN /\ fsLog' = Called("detect", FALSE)
            /\ execRet' = [raised |-> OpError("detect")]
            /\ execPc' = "cleanup"
       ELSE /\ fsLog' = Called("detect", TRUE)
            /\ IF detectTestRunner(tempFiles.files) = null
               THEN execRet' = NoRunner /\ execPc' = "cleanup"
               ELSE execRet' = execRet /\ execPc' = "runTests"
    /\ UNCHANGED <<execContext, tempFiles, factVars, extVars>>
    /\ UNCHANGED <<cfgVars, runVars, gateVars, repVars>>

\* runTests settles, lines 60-78 and 184-226: the process could not be
\* spawned and the promise is rejected
SpawnFails ==
    /\ execPc = "runTests"
    /\ fsLog' = Called("spawn", FALSE)
    /\ execRet' = [raised |-> OpError("spawn")]
    /\ execPc' = "cleanup"
    /\ UNCHANGED <<execContext, tempFiles, factVars, extVars>>
    /\ UNCHANGED <<cfgVars, runVars, gateVars, repVars>>

\* runTests settles: the process closed and its output was parsed
TestsRan(tr) ==
    /\ execPc = "runTests"
    /\ fsLog' = Called("spawn", TRUE)
    /\ execRet' = Analyzed(tr, detectTestRunner(tempFiles.files), execContext)
    /\ execPc' = "cleanup"
    /\ UNCHANGED <<execContext, tempFiles, factVars, extVars>>
    /\ UNCHANGED <<cfgVars, runVars, gateVars, repVars>>

\* the finally block, lines 80-83 and 398-405: fs.rm settles, a failure is
\* logged and not raised; then execute returns what the try block returned,
\* or, if it raised, the error Result of the catch block
Cleanup(ok) ==
    /\ execPc = "cleanup"
    /\ fsLog' = Called("rm", ok)
    /\ tempFiles' = IF ok THEN NoDir ELSE tempFiles
    /\ execRet' = IF "raised" \in DOMAIN execRet THEN ExecuteError(execRet.raised) ELSE execRet
    /\ execPc' = "returned"
    /\ UNCHANGED <<execContext, factVars, extVars>>
    /\ UNCHANGED <<cfgVars, runVars, gateVars, repVars>>

----------------------------------------------------------------------------
(* addGate and removeGate called while the Runner is in use,               *)
(* src/src/QualityRunner.js:28-44.  `gates` is the array a run in flight   *)
(* walks: the for-of loop of _runSequential reads it entry by entry, up to *)
(* the length it has by then (line 96); the map of _runParallel has read   *)
(* it whole when run first waits (line 156).                               *)

\* what this.gates holds
FieldList == IF fieldGates.same THEN gates ELSE fieldGates.list

\* is a push on this.gates one the run in flight can still come across:
\* this.gates is the array its for-of loop walks and the loop is not over
PushReachesRun == fieldGates.same /\ ~parallel /\ rpc = "gates"

\* a caller's code runs when run has not been called or is waiting
CallerRuns == rpc \in {"idle", "gates", "done"}

\* the entries a caller may add: duck-typed gates named 1..NumGates
AddedEntries == {e \in UNION {addGate(n, 0) : n \in 1..NumGates} : e.gate.kind = "custom"}

\* the log entry of a call
Edit(op, arg, after) ==
    [op |-> op, arg |-> arg, during |-> rpc, before |-> FieldList, after |-> after]

\* addGate(gate, options), lines 28-35: this.gates.push(...)
AddGate(e) ==
    /\ CallerRuns
    /\ Len(edits) < MaxEdits
    /\ Len(FieldList) < NumGates
    /\ edits' = Append(edits, Edit("addGate", e, Append(FieldList, e)))
    /\ IF rpc = "idle" \/ PushReachesRun
       THEN gates' = Append(gates, e) /\ UNCHANGED fieldGates
       ELSE fieldGates' = OtherArray(Append(FieldList, e)) /\ UNCHANGED gates
    /\ UNCHANGED <<parallel, continueOnFailure, timeout, context>>
    /\ UNCHANGED <<factVars, execVars, policyVars, runs, runVars, gateVars, repVars>>

\* removeGate(gateName), lines 41-44: this.gates = this.gates.filter(...), a new array
RemoveGate(n) ==
    LET kept == SelectSeq(FieldList, LAMBDA e : e.gate.name # n)
    IN  /\ CallerRuns
        /\ Len(edits) < MaxEdits
        /\ edits' = Append(edits, Edit("removeGate", n, kept))
        /\ IF rpc = "idle"
           THEN gates' = kept /\ UNCHANGED fieldGates
           ELSE fieldGates' = OtherArray(kept) /\ UNCHANGED gates
        /\ UNCHANGED <<parallel, continueOnFailure, timeout, context>>
        /\ UNCHANGED <<factVars, execVars, policyVars, runs, runVars, gateVars, repVars>>

----------------------------------------------------------------------------
(* Several calls of run on one Runner, and so on one Reporter, that        *)
(* overlap: src/src/QualityRunner.js:52-150 in sequential mode, with the   *)
(* calls' locals in `runs`.  Time is left out: the gate a call waits for   *)
(* resolves, rejects, or is cut off by the Runner's timer.  The Reporter's *)
(* fields and the Runner's emitter are the shared ones.                    *)

\* the context run r is called with: each call has a task id of its own
RunTask(r) == IF r = 1 THEN "t1" ELSE "t2"

RunContext(r) == [taskId |-> RunTask(r)]

\* no other call of run is in the middle of its first synchronous stretch
Turn(r) == \A q \in RunIds \ {r} : runs[q].pc # "started"

\* what the overlapping calls leave alone
OverlapFrame ==
    /\ UNCHANGED <<rpc, idx, results, tpc, tres, rtimer, summary>>
    /\ UNCHANGED <<enabled, storageAdapter, reportMetadata, now, callVars, flushVars>>
    /\ UNCHANGED <<factVars, execVars, policyVars, editVars, cfgVars, gateVars>>

\* run(code, context) of call r, lines 52-68: setTaskContext, batchMode, run-started
RunCalled2(r) ==
    /\ runs[r].pc = "idle"
    /\ Turn(r)
    /\ runs' = [runs EXCEPT ![r].pc = "started"]
    /\ taskId' = RunTask(r)
    /\ batchMode' = TRUE
    /\ runEvents' = Append(runEvents,
            Emitted("run-started", [gates |-> N, context |-> RunContext(r)]))
    /\ UNCHANGED <<batchResults, repEvents, storeCalls>>
    /\ OverlapFrame

\* the for loop of _runSequential for call r, from the end of entry i's
\* iteration on, lines 96-149: as SeqLoop, on the locals of call r
LoopOn(r, i, pushed, stop, end) ==
    LET j == IF stop THEN N + 1 ELSE NextEntry(i)
        new == pushed \o (IF stop THEN <<>> ELSE SkippedRun(i, j))
        ret == [k \in 1..Len(new) |->
                   IF enabled THEN enhancedResult(new[k].gate, new[k]) ELSE new[k]]
        ended == IF i = 0 THEN <<>>
                 ELSE GateEvents(gates[i].gate, pushed[1], end)
                      \o StopEvents(gates[i].gate, end, stop)
        started == IF j <= N THEN <<GateStarted(gates[j].gate)>> ELSE <<>>
    IN  /\ runs' = [runs EXCEPT ![r].results = @ \o new,
                                ![r].reported = @ \o ret,
                                ![r].idx = j,
                                ![r].pc = IF j <= N THEN "gate" ELSE "joined"]
        /\ ReportAll(new)
        /\ runEvents' = runEvents \o ended \o started
        /\ UNCHANGED <<taskId, batchMode, storeCalls>>
        /\ OverlapFrame

\* call r reaches its first gate, lines 73-75 and 96-111
RunDispatches(r) ==
    /\ runs[r].pc = "started"
    /\ LoopOn(r, 0, <<>>, FALSE, "none")

\* the ways the gate a call waits for can end: its run resolves with a
\* status, rejects, or the Runner's timer fires first
GateOutcomes == CustomStatuses \cup {"rejected", "timeout"}

\* the gate call r waits for ends, lines 111-148
RunGateEnds(r, out) ==
    LET g == gates[runs[r].idx].gate
        ok == out \in CustomStatuses
        result == IF ok THEN [status |-> out, gate |-> g.name]
                  ELSE RunnerError(g, IF out = "rejected" THEN ThrownError(0)
                                      ELSE TimeoutError(g.name, timeout))
    IN  /\ runs[r].pc = "gate"
        /\ Turn(r)
        /\ LoopOn(r, runs[r].idx, <<result>>,
                  IF ok THEN StopsAfterResult(result) ELSE StopsAfterError,
                  IF ok THEN "completed" ELSE "errored")

\* the end of flushBatch for call r, lines 144-150: this.batchResults is a
\* new array from here on; `walked` is the array the call's loop walked, which
\* a loop of another call that walks the same array keeps walking
FlushDone(r, sum, walked) ==
    /\ batchResults' = <<>>
    /\ repEvents' = Append(repEvents, Emitted("batch-flushed", sum))
    /\ runs' = [q \in RunIds |->
            IF q = r
            THEN [runs[q] EXCEPT !.pc = "flushed", !.walk = SameArray, !.fpos = 0,
                                 !.fsum = None, !.call = 0]
            ELSE IF runs[q].pc = "flushing" /\ runs[q].walk.same = runs[r].walk.same
                    /\ runs[r].walk.same
            THEN [runs[q] EXCEPT !.walk = OtherArray(walked)]
            ELSE runs[q]]

\* call r calls flushBatch, lines 77 and 112-131: up to its return or up to
\* the await of the first storage call
RunFlushes2(r) ==
    /\ runs[r].pc = "joined"
    /\ Turn(r)
    /\ IF ~batchMode \/ Len(batchResults) = 0
       THEN /\ runs' = [runs EXCEPT ![r].pc = "flushed"]
            /\ UNCHANGED <<batchResults, repEvents, storeCalls>>
       ELSE LET sum == [total |-> Len(batchResults), stored |-> 0, failed |-> 0,
                        results |-> <<>>]
            IN  IF MayStore
                THEN /\ runs' = [runs EXCEPT ![r].pc = "flushing", ![r].walk = SameArray,
                                             ![r].fpos = 1, ![r].fsum = sum,
                                             ![r].call = Len(storeCalls) + 1]
                     /\ storeCalls' = Append(storeCalls,
                            StoreCall(<<"flushBatch", r>>, batchResults[1].gateName,
                                      batchResults[1]))
                     /\ UNCHANGED <<batchResults, repEvents>>
                ELSE /\ FlushDone(r, sum, batchResults)
                     /\ UNCHANGED storeCalls
    /\ UNCHANGED <<taskId, batchMode, runEvents>>
    /\ OverlapFrame

\* the storage call the flushBatch of call r awaits settles, lines 132-142:
\* the entry is marked and the for-of loop goes to the next entry of the
\* array it walks, as that array is by then, or ends
RunFlushSettles(r, ok) ==
    LET me == runs[r]
        arr == IF me.walk.same THEN batchResults ELSE me.walk.list
        marked == Marked(arr[me.fpos], ok, me.call)
        arr2 == [arr EXCEPT ![me.fpos] = marked]
        answered == Answered(me.call, ok)
        sum == [me.fsum EXCEPT !.stored = IF ok THEN @ + 1 ELSE @,
                               !.failed = IF ok THEN @ ELSE @ + 1,
                               !.results = Append(@, marked)]
    IN  /\ me.pc = "flushing"
        /\ Turn(r)
        /\ IF me.fpos < Len(arr2)
           THEN /\ runs' = [runs EXCEPT ![r].fpos = @ + 1, ![r].fsum = sum,
                                        ![r].call = Len(storeCalls) + 1,
                                        ![r].walk = IF me.walk.same THEN SameArray
                                                    ELSE OtherArray(arr2)]
                /\ batchResults' = IF me.walk.same THEN arr2 ELSE batchResults
                /\ storeCalls' = Append(answered,
                        StoreCall(<<"flushBatch", r>>, arr2[me.fpos + 1].gateName,
                                  arr2[me.fpos + 1]))
                /\ UNCHANGED repEvents
           ELSE /\ FlushDone(r, sum, arr2)
                /\ storeCalls' = answered
        /\ UNCHANGED <<taskId, batchMode, runEvents>>
        /\ OverlapFrame

\* flushBatch has returned to call r, lines 80-88 and 209-219: the summary is
\* generated; storeSummary hands it to storage and waits, or returns it, and
\* then run-completed is emitted and run returns
RunSummarizes2(r) ==
    LET sum == generateSummary(runs[r].results)
    IN  /\ runs[r].pc = "flushed"
        /\ Turn(r)
        /\ IF MayStore
           THEN /\ runs' = [runs EXCEPT ![r].pc = "storing", ![r].summary = sum,
                                        ![r].call = Len(storeCalls) + 1]
                /\ storeCalls' = Append(storeCalls,
                        StoreCall(<<"storeSummary", r>>, "summary", sum))
                /\ UNCHANGED runEvents
           ELSE /\ runs' = [runs EXCEPT ![r].pc = "done", ![r].summary = sum]
                /\ runEvents' = Append(runEvents, Emitted("run-completed", sum))
                /\ UNCHANGED storeCalls
        /\ UNCHANGED <<taskId, batchMode, batchResults, repEvents>>
        /\ OverlapFrame

\* the storage call of storeSummary settles for call r, lines 219-227 and 86-88
RunSummaryStored(r, ok) ==
    LET sum == StoredSummary(runs[r].summary, ok, runs[r].call)
    IN  /\ runs[r].pc = "storing"
        /\ Turn(r)
        /\ runs' = [runs EXCEPT ![r].pc = "done", ![r].summary = sum, ![r].call = 0]
        /\ storeCalls' = Answered(runs[r].call, ok)
        /\ runEvents' = Append(runEvents, Emitted("run-completed", sum))
        /\ UNCHANGED <<taskId, batchMode, batchResults, repEvents>>
        /\ OverlapFrame

----------------------------------------------------------------------------
(* The failure policy of the lint and security gates:                      *)
(* BaseQualityGate.shouldFail, src/src/gates/ESLintGate.js:342-359         *)

\* the severities an issue may carry: those of severityMap, one of them in
\* capitals, and one severityMap does not know
Severities == {"error", "warning", "info", "hint", "ERROR", "critical"}

\* the severities processResults gives lint issues, line 108
LintSeverities == {"error", "warning"}

\* the severities of SecurityGate's patterns, SecurityGate.js:13-38
SecuritySeverities == {"error", "warning", "info"}

\* level.toLowerCase(), on the severities above
ToLowerCase(level) == IF level = "ERROR" THEN "error" ELSE level

\* the severityMap of parseSeverity, lines 343-348
SeverityMap == [error |-> 3, warning |-> 2, info |-> 1, hint |-> 0]

\* parseSeverity(level), lines 342-351: severityMap[level.toLowerCase()] || 0
parseSeverity(level) ==
    IF ToLowerCase(level) \in DOMAIN SeverityMap
    THEN SeverityMap[ToLowerCase(level)]
    ELSE 0

\* shouldFail(issues), lines 356-359
shouldFail(list) ==
    Len(SelectSeq(list, LAMBDA i : parseSeverity(i.severity) >= 3)) >= failureThreshold

\* how many issues carry exactly the severity sev, ESLintGate.js:58-59 and
\* SecurityGate.js:74-76
StatOf(list, sev) == Len(SelectSeq(list, LAMBDA i : i.severity = sev))

\* the gate's analysis finds one more issue, of severity sev
IssueFound(sev) ==
    /\ Len(issues) < MaxIssues
    /\ verdicts = <<>>
    /\ issues' = Append(issues, [severity |-> sev, line |-> Len(issues) + 1])
    /\ UNCHANGED <<gateOptions, failureThreshold, verdicts>>
    /\ UNCHANGED <<factVars, execVars, editVars, runs, cfgVars, runVars, gateVars, repVars>>

\* a caller calls gate.shouldFail(issues)
ShouldFail ==
    /\ Len(verdicts) < MaxVerdicts
    /\ verdicts' = Append(verdicts, [call |-> "shouldFail", ret |-> shouldFail(issues)])
    /\ UNCHANGED <<gateOptions, failureThreshold, issues>>
    /\ UNCHANGED <<factVars, execVars, editVars, runs, cfgVars, runVars, gateVars, repVars>>

\* what execute of ESLintGate (lines 57-74) and of SecurityGate
\* (SecurityGate.js:68-78) returns once the analysis has found `issues`
GateExecutes(gate, severities) ==
    /\ Len(verdicts) < MaxVerdicts
    /\ \A k \in 1..Len(issues) : issues[k].severity \in severities
    /\ verdicts' = Append(verdicts,
            [call |-> gate,
             ret |-> [status |-> IF shouldFail(issues) THEN "fail" ELSE "pass",
                      issues |-> issues,
                      stats |-> [errors |-> StatOf(issues, "error"),
                                 warnings |-> StatOf(issues, "warning")]]])
    /\ UNCHANGED <<gateOptions, failureThreshold, issues>>
    /\ UNCHANGED <<factVars, execVars, editVars, runs, cfgVars, runVars, gateVars, repVars>>

----------------------------------------------------------------------------
(* Time                                                                    *)

\* the countdowns of the timers that are pending
Pending ==
    {<<"gate", i, gtimer[i]>> : i \in {k \in Entries : gpc[k] = "executing"}}
    \cup {<<"sleep", i, sleepT[i]>> : i \in {k \in Entries : gpc[k] = "sleeping"}}
    \cup {<<"runner", i, rtimer[i]>> : i \in {k \in Entries : tpc[k] = "awaiting"}}

\* a promise continuation is ready to run: it runs before any timer and
\* before time passes
ContinuationReady ==
    \/ rpc \in {"started", "joined"}
    \/ rpc = "flushing" /\ fpc = "idle"
    \/ \E i \in Entries : tpc[i] = "awaiting" /\ Settled(i)

\* one unit of time passes for the pending timers: none of them is due
TimePasses ==
    /\ Pending # {}
    /\ \A p \in Pending : p[3] > 0
    /\ ~ContinuationReady
    /\ gtimer' = [i \in Slots |-> IF gpc[i] = "executing" THEN gtimer[i] - 1 ELSE gtimer[i]]
    /\ sleepT' = [i \in Slots |-> IF gpc[i] = "sleeping" THEN sleepT[i] - 1 ELSE sleepT[i]]
    /\ rtimer' = [i \in Slots |-> IF tpc[i] = "awaiting" THEN rtimer[i] - 1 ELSE rtimer[i]]
    /\ UNCHANGED <<gpc, attempts, lastError, execCalls, abandoned, gval, emitted>>
    /\ UNCHANGED <<rpc, idx, results, tpc, tres, summary, runEvents, batchResults>>
    /\ UNCHANGED <<libVars, cfgVars>>

\* one unit of time passes; what the wall clock shows is left out
Tick == TimePasses /\ UNCHANGED repVars

\* one unit of time passes and the wall clock `new Date()` reads shows it
TickClock ==
    /\ TimePasses
    /\ now' = now + 1
    /\ UNCHANGED <<repCfg, storeCalls, repEvents, callVars, flushVars>>

----------------------------------------------------------------------------

Next ==
    \/ run
    \/ _runSequential
    \/ _runParallel
    \/ \E i \in Entries : SeqGateSettles(i)
    \/ \E i \in Entries : SeqTimerFires(i)
    \/ \E i \in Entries : ParGateSettles(i)
    \/ \E i \in Entries : ParTimerFires(i)
    \/ RunReturns
    \/ \E i \in Entries, st \in ExecStatuses : ExecuteReturns(i, st)
    \/ \E i \in Entries : ExecuteThrows(i)
    \/ \E i \in Entries : GateTimerFires(i)
    \/ \E i \in Entries : SleepEnds(i)
    \/ \E i \in Entries : AbandonedSettles(i)
    \/ \E i \in Entries, st \in CustomStatuses : CustomResolves(i, st)
    \/ \E i \in Entries : CustomRejects(i)
    \/ Tick

Spec == Init /\ [][Next]_vars

GateSpec == InitGate /\ [][Next]_vars

----------------------------------------------------------------------------
(* A run against the wall clock.  The event loop runs what is ready: the   *)
(* steps of the Runner and of a gate's run, and the timers that are due;   *)
(* whether and when a call of execute, or a duck-typed gate's run, settles *)
(* is up to the gate.                                                      *)

NextTimed ==
    \/ run
    \/ _runSequential
    \/ _runParallel
    \/ \E i \in Entries : SeqGateSettles(i)
    \/ \E i \in Entries : SeqTimerFires(i)
    \/ \E i \in Entries : ParGateSettles(i)
    \/ \E i \in Entries : ParTimerFires(i)
    \/ RunReturns
    \/ \E i \in Entries, st \in ExecStatuses : ExecuteReturns(i, st)
    \/ \E i \in Entries : ExecuteThrows(i)
    \/ \E i \in Entries : GateTimerFires(i)
    \/ \E i \in Entries : SleepEnds(i)
    \/ \E i \in Entries : AbandonedSettles(i)
    \/ \E i \in Entries, st \in CustomStatuses : CustomResolves(i, st)
    \/ \E i \in Entries : CustomRejects(i)
    \/ TickClock

\* what the event loop does on its own once run has been called
Scheduled ==
    \/ run
    \/ _runSequential
    \/ _runParallel
    \/ \E i \in Entries : SeqGateSettles(i)
    \/ \E i \in Entries : SeqTimerFires(i)
    \/ \E i \in Entries : ParGateSettles(i)
    \/ \E i \in Entries : ParTimerFires(i)
    \/ RunReturns
    \/ \E i \in Entries : GateTimerFires(i)
    \/ \E i \in Entries : SleepEnds(i)
    \/ TickClock

\* a Runner with one gate that retries up to MaxRetry times, or with up to
\* NumGates gates that do not retry
InitTimed == Constructed(GateLists(1, MaxRetry) \cup UNION {GateLists(n, 0) : n \in 0..NumGates})

TimedSpec == InitTimed /\ [][NextTimed]_vars /\ WF_vars(Scheduled)

----------------------------------------------------------------------------
(* A Reporter used on its own, as src/test-storage-integration.js does.    *)

\* a Runner nobody runs: the defaults of its constructor, no gate
UnusedRunner ==
    /\ parallel = FALSE
    /\ continueOnFailure = TRUE
    /\ timeout = MaxTimeout
    /\ gates = <<>>
    /\ context = EmptyObject
    /\ NotRun

\* the statuses a Result handed to generateSummary can carry: those the
\* built-in gates, a duck-typed gate and the disabled paths produce
SummaryStatuses == ExecStatuses \cup CustomStatuses \cup {"skipped"}

\* the Result sequences of up to n Results, of gates 1..NumGates
ResultSeqs(n) ==
    UNION {[1..m -> [status : SummaryStatuses, gate : 1..NumGates]] : m \in 0..n}

\* a Reporter and a caller that holds some Result sequence
InitSummary ==
    /\ UnusedRunner
    /\ NewReporter({TRUE}, {null, "t1"}, {FALSE}, {FALSE}, {EmptyObject})
    /\ input \in ResultSeqs(MaxLen)
    /\ LibraryUnused

NextSummary ==
    \/ GenerateSummary
    \/ \E t \in TaskIds : setTaskContext(t)
    \/ ClockAdvances

SummarySpec == InitSummary /\ [][NextSummary]_vars

\* the Results the caller reports: one as a gate returns it, one with
\* metadata of its own
Reported ==
    <<[status |-> "pass", gate |-> 1, attempts |-> 1],
      [status |-> "failed", gate |-> 2, metadata |-> [env |-> "dev", file |-> "a.js"]]>>

\* a Reporter built with any options, and a caller about to report
InitReporter ==
    /\ UnusedRunner
    /\ NewReporter(BOOLEAN, {null, "t1"}, BOOLEAN, BOOLEAN, {EmptyObject, [env |-> "ci"]})
    /\ input = Reported
    /\ LibraryUnused

NextReporter ==
    \/ \E k \in 1..Len(input) : ReportResult(input[k].gate, input[k])
    \/ \E k \in 1..Len(reports), ok \in BOOLEAN : ReportStoreSettles(k, ok)
    \/ FlushBatch
    \/ \E ok \in BOOLEAN : FlushStoreSettles(ok)
    \/ \E t \in TaskIds : setTaskContext(t)
    \/ ClockAdvances

ReporterSpec == InitReporter /\ [][NextReporter]_vars

----------------------------------------------------------------------------
(* A Runner whose Reporter may have a storage adapter and a task id, as    *)
(* createWithGates builds it, run with or without a task id in the         *)
(* context.  Its gates are duck-typed; storage answers later, either way.  *)

\* the gate lists of n duck-typed gates, each entry enabled or not
CustomLists(n) == {q \in GateLists(n, 0) : \A i \in 1..n : q[i].gate.kind = "custom"}

\* the context run is called with: {} or {taskId: 't1'}
Contexts == {EmptyObject, [taskId |-> "t1"]}

InitStored ==
    /\ parallel \in BOOLEAN
    /\ continueOnFailure \in BOOLEAN
    /\ timeout \in 1..MaxTimeout
    /\ gates \in UNION {CustomLists(n) : n \in 0..NumGates}
    /\ context \in Contexts
    /\ NotRun
    /\ NewReporter(BOOLEAN, {null, "t2"}, {FALSE}, BOOLEAN, {EmptyObject})
    /\ input = <<>>
    /\ LibraryUnused

NextStored ==
    \/ run
    \/ _runSequential
    \/ _runParallel
    \/ \E i \in Entries : SeqGateSettles(i)
    \/ \E i \in Entries : SeqTimerFires(i)
    \/ \E i \in Entries : ParGateSettles(i)
    \/ \E i \in Entries : ParTimerFires(i)
    \/ RunReturns
    \/ RunFlushes
    \/ \E ok \in BOOLEAN : FlushStoreSettles(ok)
    \/ RunSummarizes
    \/ \E ok \in BOOLEAN : SummaryStoreSettles(ok)
    \/ \E i \in Entries, st \in CustomStatuses : CustomResolves(i, st)
    \/ \E i \in Entries : CustomRejects(i)
    \/ Tick

StoreSpec == InitStored /\ [][NextStored]_vars

----------------------------------------------------------------------------
(* A Runner with duck-typed gates whose caller adds and removes gates      *)
(* before, during and after a run                                          *)

InitEdit ==
    /\ parallel \in BOOLEAN
    /\ continueOnFailure \in BOOLEAN
    /\ timeout = 1
    /\ gates \in UNION {CustomLists(n) : n \in 0..NumGates}
    /\ context = EmptyObject
    /\ NotRun
    /\ DefaultReporter
    /\ input = <<>>
    /\ LibraryUnused

NextEdit ==
    \/ \E e \in AddedEntries : AddGate(e)
    \/ \E n \in 1..NumGates : RemoveGate(n)
    \/ run
    \/ _runSequential
    \/ _runParallel
    \/ \E i \in Entries : SeqGateSettles(i)
    \/ \E i \in Entries : SeqTimerFires(i)
    \/ \E i \in Entries : ParGateSettles(i)
    \/ \E i \in Entries : ParTimerFires(i)
    \/ RunReturns
    \/ \E i \in Entries, st \in CustomStatuses : CustomResolves(i, st)
    \/ \E i \in Entries : CustomRejects(i)
    \/ Tick

EditSpec == InitEdit /\ [][NextEdit]_vars

----------------------------------------------------------------------------
(* A Runner in sequential mode, with duck-typed gates and a Reporter with  *)
(* or without a storage adapter, on which run is called NumRuns times,     *)
(* each call with a task id of its own, possibly before the earlier call   *)
(* has returned.  The storage adapter resolves every call made to it;      *)
(* what happens when it rejects is followed under ReporterSpec and         *)
(* StoreSpec.                                                              *)

InitOverlap ==
    /\ parallel = FALSE
    /\ continueOnFailure \in BOOLEAN
    /\ timeout = 1
    /\ gates \in UNION {CustomLists(n) : n \in 1..OverlapGates}
    /\ context = EmptyObject
    /\ NotRun
    /\ NewReporter({TRUE}, {null}, {FALSE}, BOOLEAN, {EmptyObject})
    /\ input = <<>>
    /\ LibraryUnused

NextOverlap ==
    \/ \E r \in RunIds : RunCalled2(r)
    \/ \E r \in RunIds : RunDispatches(r)
    \/ \E r \in RunIds, out \in GateOutcomes : RunGateEnds(r, out)
    \/ \E r \in RunIds : RunFlushes2(r)
    \/ \E r \in RunIds : RunFlushSettles(r, TRUE)
    \/ \E r \in RunIds : RunSummarizes2(r)
    \/ \E r \in RunIds : RunSummaryStored(r, TRUE)

OverlapSpec == InitOverlap /\ [][NextOverlap]_vars

----------------------------------------------------------------------------
(* A lint or security gate built with or without a failureThreshold, whose *)
(* analysis finds up to MaxIssues issues before its verdict is asked for   *)

\* the options a caller may build the gate with
PolicyOptions == {EmptyObject} \cup {[failureThreshold |-> t] : t \in 0..MaxThreshold}

InitPolicy ==
    /\ UnusedRunner
    /\ DefaultReporter
    /\ input = <<>>
    /\ FactoryUnused
    /\ TestGateIdle
    /\ \E options \in PolicyOptions : GateBuilt(options)
    /\ Unedited
    /\ NoRuns

NextPolicy ==
    \/ \E sev \in Severities : IssueFound(sev)
    \/ ShouldFail
    \/ GateExecutes("eslint", LintSeverities)
    \/ GateExecutes("security", SecuritySeverities)

PolicySpec == InitPolicy /\ [][NextPolicy]_vars

----------------------------------------------------------------------------
(* The factory functions called by a caller who holds a list of gate types *)

InitFactory ==
    /\ UnusedRunner
    /\ DefaultReporter
    /\ input = <<>>
    /\ registry = BuiltIn
    /\ gateTypes \in TypeLists(MaxTypes)
    /\ built = <<>>
    /\ TestGateIdle
    /\ ExtensionsUnused

NextFactory ==
    \/ \E type \in GateTypeNames : CreateGate(type)
    \/ CreateWithGates
    \/ CreateForCI
    \/ \E extends \in BOOLEAN : registerGate("custom", extends)

FactorySpec == InitFactory /\ [][NextFactory]_vars

----------------------------------------------------------------------------
(* One call of TestRunnerGate.execute                                      *)

InitTestGate ==
    /\ UnusedRunner
    /\ DefaultReporter
    /\ input = <<>>
    /\ FactoryUnused
    /\ execPc = "idle"
    /\ execContext \in TestContexts
    /\ tempFiles = NoDir
    /\ fsLog = <<>>
    /\ execRet = None
    /\ ExtensionsUnused

NextTestGate ==
    \/ Execute
    \/ \E ok \in BOOLEAN : Mkdir(ok)
    \/ \E ok \in BOOLEAN : WriteTest(ok)
    \/ \E ok \in BOOLEAN : WritePackage(ok)
    \/ \E whole \in BOOLEAN : TempDisturbed(whole)
    \/ Detect
    \/ SpawnFails
    \/ \E tr \in TestResults : TestsRan(tr)
    \/ \E ok \in BOOLEAN : Cleanup(ok)

TestGateSpec == InitTestGate /\ [][NextTestGate]_vars

----------------------------------------------------------------------------
(* Properties                                                              *)

\* a failing status, in either of the vocabularies the source uses
IsFail(st) == st \in {"fail", "failed"}

\* the Results in the output that belong to the gate named n
OutputOf(n) == ResultsOf(results, n)

\* C1: in sequential mode with continueOnFailure = false, a Result with a
\* failing status is the last Result of the output and no later gate's
\* execute has been invoked.
C1_StopsAfterFail ==
    (~parallel /\ ~continueOnFailure) =>
        \A k \in 1..Len(results) :
            IsFail(results[k].status) =>
                /\ Len(results) = k
                /\ \A j \in Entries : j > results[k].gate => execCalls[j] = 0

\* C2: in parallel mode, once the tasks are joined, the output holds one
\* Result for every registered gate, in registration order, whatever the
\* policy and the outcomes; the summary's total is the number of gates.
C2_ParallelAllInOrder ==
    (parallel /\ rpc \in {"joined", "done"}) =>
        /\ Len(results) = N
        /\ \A k \in Entries : results[k].gate = gates[k].gate.name
        /\ rpc = "done" => summary.total = N

\* C2 witness: two gates joined under continueOnFailure = false, the second
\* completed first, the first ended in an error.
C2_Witness ==
    /\ parallel /\ ~continueOnFailure /\ rpc = "joined" /\ N = 2
    /\ Len(batchResults) = 2 /\ batchResults[1].gate = 2
    /\ results[1].status = "error" /\ results[2].status = "fail"

\* C3: the returned summary's overallStatus is failed whenever a Result of
\* the run has status fail or error, and passed exactly when no Result
\* failed and none errored.
C3_OverallStatus ==
    rpc = "done" =>
        LET bad == \E k \in 1..Len(results) :
                      IsFail(results[k].status) \/ results[k].status = "error"
        IN  /\ bad => summary.overallStatus = "failed"
            /\ summary.overallStatus = "passed" <=> ~bad

\* entry i holds a BaseQualityGate
IsBase(i) == gates[i].gate.kind = "base"

\* gate.run has been called for entry i
RunCalled(i) == gpc[i] # "idle"

\* entry i's run ended with the Result of a successful attempt
Succeeded(i) == gpc[i] = "resolved" /\ "payload" \in DOMAIN gval[i]

\* entry i's run ended with the Result made after the retry loop
GaveUp(i) == gpc[i] = "resolved" /\ "details" \in DOMAIN gval[i]

\* what run does for a disabled gate, with the status left open
DisabledGateRun(st) ==
    \A i \in Entries :
        (IsBase(i) /\ ~gates[i].gate.enabled /\ RunCalled(i)) =>
            /\ gpc[i] = "resolved"
            /\ gval[i].status = st
            /\ execCalls[i] = 0 /\ abandoned[i] = 0
            /\ gtimer[i] = Off /\ sleepT[i] = Off
            /\ attempts[i] = 0

\* C4: for a gate with enabled = false, run returns at once a
\* Result with status skip, with no call of execute, no timer and no retry.
C4_DisabledSkip == DisabledGateRun("skip")

\* what the code does for such a gate: all of the above, with status skipped
DisabledGateSkipped == DisabledGateRun("skipped")

\* C5: a successful run after k failed attempts (k <= retryCount) returns
\* the Result of invocation k + 1 of execute, with attempts = k + 1.
C5_RetrySuccess ==
    \A i \in Entries :
        (IsBase(i) /\ Succeeded(i)) =>
            LET k == execCalls[i] - 1
            IN  /\ 0 <= k /\ k <= gates[i].gate.retryCount
                /\ attempts[i] = k
                /\ gval[i].payload = k + 1
                /\ gval[i].attempts = k + 1
                /\ gval[i].status \in ExecStatuses

\* C5 witness: retryCount = 2, attempts 1 and 2 failed (one by throwing,
\* one by timing out or throwing), attempt 3 passed.
C5_Witness ==
    \E i \in Entries :
        /\ IsBase(i) /\ gates[i].gate.retryCount = 2
        /\ Succeeded(i) /\ execCalls[i] = 3
        /\ gval[i].status = "pass" /\ gval[i].attempts = 3

\* C6: for an enabled gate with retryCount = r >= 0, execute is never
\* invoked more than r + 1 times, and when every attempt raised run returns
\* one Result with status error, the last error's message and r + 1 as the
\* number of attempts.
C6_AllAttemptsRaise ==
    \A i \in Entries :
        (IsBase(i) /\ gates[i].gate.enabled /\ gates[i].gate.retryCount >= 0) =>
            LET g == gates[i].gate
                r == g.retryCount
            IN  /\ execCalls[i] <= r + 1
                /\ GaveUp(i) =>
                    /\ execCalls[i] = r + 1
                    /\ gval[i].status = "error"
                    /\ gval[i].error \in {ThrownError(r + 1), TimeoutError(g.name, g.timeout)}
                    /\ gval[i].details.attempts = r + 1

\* C6 witness: retryCount = 2 and three attempts raised, the last by throwing.
C6_Witness ==
    \E i \in Entries :
        /\ IsBase(i) /\ gates[i].gate.retryCount = 2
        /\ GaveUp(i) /\ execCalls[i] = 3 /\ gval[i].error = ThrownError(3)

\* the number of attempts a Result reports, 0 if it reports none
AttemptsOf(r) ==
    IF "attempts" \in DOMAIN r THEN r.attempts
    ELSE IF "details" \in DOMAIN r THEN r.details.attempts
    ELSE 0

\* C7: a Result of the run that reports a timeout of a gate has status
\* error, names that gate's configured timeout, and reports attempts >= 1.
C7_TimeoutResult ==
    \A k \in 1..Len(results) :
        LET r == results[k]
            g == gates[r.gate].gate
        IN  (g.kind = "base" /\ "error" \in DOMAIN r /\ r.error.kind = "timeout") =>
                /\ r.status = "error"
                /\ r.error.ms = g.timeout
                /\ AttemptsOf(r) >= 1

\* C8: no call of execute is still running once its deadline has elapsed.
C8_NoLeak == \A i \in Entries : abandoned[i] = 0

\* C9: the run of a BaseQualityGate never rejects, whatever its configuration.
C9_RunNeverRejects == \A i \in Entries : IsBase(i) => gpc[i] # "rejected"

\* the Runner's task for entry i has ended although gate.run did not resolve
EndedUnresolved(i) == tpc[i] \in {"completed", "errored"} /\ gpc[i] # "resolved"

C11_ErrorHalts ==
    (~parallel /\ ~continueOnFailure) =>
        \A k \in 1..Len(results) :
            results[k].status = "error" =>
                \A j \in Entries : j > results[k].gate => ~RunCalled(j)

\* the four statuses of a Result the specification names
Canonical == {"pass", "fail", "skip", "error"}

\* C12: over a Result sequence made of p pass, f fail, s skip and e error
\* Results, generateSummary returns total = p + f + s + e, passed = p,
\* failed = f, skipped = s, errors = e and score = passed / total * 100.
C12_SummaryCounts ==
    \A k \in 1..Len(summaries) :
        LET sm == summaries[k]
            p == CountStatus(input, "pass")
            f == CountStatus(input, "fail")
            sk == CountStatus(input, "skip")
            e == CountStatus(input, "error")
        IN  (\A j \in 1..Len(input) : input[j].status \in Canonical) =>
                /\ sm.total = p + f + sk + e
                /\ sm.passed = p /\ sm.failed = f /\ sm.skipped = sk /\ sm.errors = e
                /\ sm.total > 0 => sm.score[1] * sm.total = p * 100 * sm.score[2]

\* C13: two calls of generateSummary on the same Result sequence return
\* RunSummaries that are equal in every field, whatever happened to the
\* Reporter and however much time passed between them.
C13_SummaryPure ==
    \A j, k \in 1..Len(summaries) : summaries[j] = summaries[k]

\* the Result at position k of the output was made by a duck-typed gate
FromCustomGate(k) ==
    LET i == results[k].gate
    IN  gates[i].enabled /\ gates[i].gate.kind = "custom" /\ tpc[i] = "completed"

\* C14: the Result of every BaseQualityGate's run, and every Result of a
\* run's output that a built-in gate, a disabled gate or the Runner itself
\* produced, has one of the statuses pass, fail, skip, error.
C14_CanonicalStatus ==
    /\ \A i \in Entries :
          (IsBase(i) /\ gpc[i] = "resolved") => gval[i].status \in Canonical
    /\ \A k \in 1..Len(results) :
          ~FromCustomGate(k) => results[k].status \in Canonical

\* C15: in the summary a run returns, for every gate name the per-gate
\* counts passed and failed add up to that gate's total.
C15_PerGateCounts ==
    rpc = "done" =>
        \A n \in DOMAIN summary.gates :
            summary.gates[n].passed + summary.gates[n].failed = summary.gates[n].total

\* C16: for every Result sequence the summary has 0 <= passed <= total and
\* a score between 0 and 100; the score is 0 when total is 0, and it is never
\* a quotient by zero.
C16_ScoreRange ==
    \A k \in 1..Len(summaries) :
        LET sm == summaries[k]
        IN  /\ sm.total = Len(input)
            /\ 0 <= sm.passed /\ sm.passed <= sm.total
            /\ sm.score[2] > 0
            /\ 0 <= sm.score[1] /\ sm.score[1] <= 100 * sm.score[2]
            /\ sm.total = 0 => sm.score[1] = 0

\* C16 witness: generateSummary was applied to the empty Result sequence.
C16_Witness ==
    /\ Len(input) = 0
    /\ Len(summaries) = MaxSummaries
    /\ summaries[1].total = 0 /\ summaries[1].score = <<0, 1>>

\* the Result the Runner made for the disabled entry i
SkipResultOf(i) == IF parallel THEN tres[i] ELSE OutputOf(i)[1]

\* what the Runner does with the entries disabled at the Runner, with the
\* status left open: one Result with that status and a reason, no call of the
\* gate, counted in total and skipped and never in passed or failed, and the
\* run goes on to the next entry
DisabledEntry(st) ==
    \A i \in Entries :
        (~gates[i].enabled /\ tpc[i] = "skipped") =>
            /\ ~RunCalled(i) /\ execCalls[i] = 0
            /\ SkipResultOf(i).status = st
            /\ "reason" \in DOMAIN SkipResultOf(i) /\ SkipResultOf(i).reason # ""
            /\ i < N => tpc[i + 1] # "none"
            /\ rpc \in {"joined", "done"} => Len(OutputOf(i)) = 1
            /\ rpc = "done" =>
                /\ summary.total = Len(results)
                /\ summary.skipped = CountStatus(results, st)
                /\ summary.passed + summary.failed + summary.skipped <= summary.total
                /\ summary.gates[i].total = 1
                /\ summary.gates[i].passed = 0 /\ summary.gates[i].failed = 0

\* C17: an entry disabled at the Runner yields, in either mode, one Result
\* with status skip and a reason, its gate is never called, it is counted in
\* the summary's total and skipped and never in passed or failed, and it never
\* stops a sequential run.
C17_DisabledEntrySkip == DisabledEntry("skip")

\* what the code does for such an entry: all of the above, with status skipped
DisabledEntrySkipped == DisabledEntry("skipped")

\* the value the latest call of flushBatch returned, in the next state
Flushed == flushes'[Len(flushes')]

\* C18: a call of flushBatch on an empty batch returns {flushed: 0}, makes
\* no storage call, emits nothing and leaves the Reporter as it was, the
\* batch still empty.
C18_EmptyFlush ==
    [][(fpc = "idle" /\ Len(batchResults) = 0 /\ Len(flushes') = Len(flushes) + 1) =>
            /\ Flushed = [flushed |-> 0]
            /\ storeCalls' = storeCalls
            /\ repEvents' = repEvents
            /\ batchResults' = <<>>
            /\ UNCHANGED <<repCfg, now, reports, fpc, fpos, fsum>>]_vars

\* C18 witness: in batch mode with a storage adapter and a task id, a batch
\* of one entry was flushed and flushBatch was then called on the empty batch.
C18_Witness ==
    /\ enabled /\ batchMode /\ MayStore
    /\ Len(flushes) = 2
    /\ "stored" \in DOMAIN flushes[1] /\ flushes[1].stored = 1
    /\ flushes[2] = [flushed |-> 0]
    /\ Len(storeCalls) = 1 /\ Len(repEvents) = 2 /\ batchResults = <<>>

\* C19: when a flushBatch that persists returns, it has made one storage
\* call per entry, in buffer order, its summary has stored + failed = total
\* = the number of entries persisted = the length of results, and the batch
\* is empty; also when reportResult appended while it was waiting.
C19_FlushAll ==
    [][(fpc = "storing" /\ fpc' = "idle") =>
            LET n == Len(Flushed.results)
                first == Len(storeCalls') - n
            IN  /\ Flushed.stored + Flushed.failed = Flushed.total
                /\ Flushed.total = n
                /\ first >= 0
                /\ \A j \in 1..n :
                      /\ storeCalls'[first + j].by = "flushBatch"
                      /\ storeCalls'[first + j].gateName = Flushed.results[j].gateName
                /\ batchResults' = <<>>]_vars

\* the entry a call of reportResult made (its returned value) is an enhanced
\* result: it carries the gate name, the Reporter's task id, the time of the
\* call and the metadata of Reporter and Result merged, the Result's first
IsEnhanced(call, e) ==
    LET own == IF "metadata" \in DOMAIN call.result THEN call.result.metadata
               ELSE EmptyObject
    IN  /\ {"gateName", "taskId", "timestamp", "metadata"} \subseteq DOMAIN e
        /\ e.gateName = call.gateName
        /\ e.taskId = taskId
        /\ e.timestamp = now
        /\ DOMAIN e.metadata = DOMAIN own \cup DOMAIN reportMetadata
        /\ \A f \in DOMAIN e.metadata :
              e.metadata[f] = IF f \in DOMAIN own THEN own[f] ELSE reportMetadata[f]
        /\ e.status = call.result.status

\* a step that is a call of reportResult: storage is contacted only if
\* batching is inactive and there is a storage adapter and a task id; if
\* batching is active (and, when `whenEnabled`, the Reporter is enabled) one
\* enhanced entry is appended to the batch and no storage call is made
ReportStep(whenEnabled) ==
    Len(reports') = Len(reports) + 1 =>
        LET call == reports'[Len(reports')]
        IN  /\ storeCalls' # storeCalls =>
                /\ ~batchMode /\ storageAdapter /\ taskId # null
                /\ Len(storeCalls') = Len(storeCalls) + 1
            /\ (batchMode /\ (whenEnabled => enabled)) =>
                /\ batchResults' = Append(batchResults, call.ret)
                /\ IsEnhanced(call, call.ret)
                /\ call.pc = "returned"
                /\ storeCalls' = storeCalls

\* C20: reportResult contacts storage only when batching is inactive and
\* a storage adapter and a task id are present; when batching is active it
\* appends one enhanced entry to the end of the batch and returns without a
\* storage call.
C20_ReportBatched == [][ReportStep(FALSE)]_vars

\* C20 amended: the same, the second half for a Reporter that is enabled.
C20_ReportBatchedEnabled == [][ReportStep(TRUE)]_vars

\* C20 witness: with a storage adapter and a task id, two Results were
\* reported in batch mode, the second with metadata that overrides the
\* Reporter's, and storage has not been contacted.
C20_Witness ==
    /\ enabled /\ batchMode /\ MayStore
    /\ reportMetadata = [env |-> "ci"]
    /\ Len(reports) = 2 /\ Len(batchResults) = 2
    /\ batchResults[2].metadata = [env |-> "dev", file |-> "a.js"]
    /\ batchResults[1].metadata = [env |-> "ci"]
    /\ storeCalls = <<>>

\* C21: a reportResult that persists at once never raises: its storage call
\* settled either way, it returns the enhanced result, marked stored exactly
\* when the call succeeded and stored = false with the error when it failed;
\* the Result it was given is the one storage received and is left as it was,
\* and its status and payload are those of the enhanced result.
C21_StorageFailureAbsorbed ==
    \A k \in 1..Len(reports) :
        "id" \in DOMAIN reports[k] =>
            LET call == reports[k]
                sent == storeCalls[call.id]
                given == input[CHOOSE j \in 1..Len(input) : input[j].gate = call.gateName]
            IN  /\ call.pc \in {"storing", "returned"}
                /\ call.result = given /\ sent.result = given
                /\ call.ret.status = given.status
                /\ \A f \in DOMAIN given \ {"metadata"} : call.ret[f] = given[f]
                /\ call.pc = "storing" <=> sent.outcome = "pending"
                /\ call.pc = "storing" => "stored" \notin DOMAIN call.ret
                /\ call.pc = "returned" =>
                      /\ call.ret.stored <=> sent.outcome = "resolved"
                      /\ call.ret.stored => call.ret.storageId = call.id
                      /\ ~call.ret.stored => "storageError" \in DOMAIN call.ret

\* C21 witness: two Results were reported at once; storage failed for the
\* first and succeeded for the second, and both calls returned.
C21_Witness ==
    /\ Len(reports) = 2
    /\ \A k \in 1..2 : reports[k].pc = "returned" /\ "id" \in DOMAIN reports[k]
    /\ storeCalls[reports[1].id].outcome = "rejected" /\ ~reports[1].ret.stored
    /\ storeCalls[reports[2].id].outcome = "resolved" /\ reports[2].ret.stored

\* the Runner dispatched its task for entry i: gate.run was called
Invoked(i) == tpc[i] \in {"awaiting", "completed", "errored"}

\* the number of calls of execute (or of a duck-typed gate's run) of entry i
\* that have been started and have not returned yet
InFlight(i) == (IF gpc[i] \in {"executing", "custom"} THEN 1 ELSE 0) + abandoned[i]

\* the positions in runEvents of the events of the types given about gate n
EventsOf(types, n) ==
    {k \in 1..Len(runEvents) :
        /\ runEvents[k].type \in types
        /\ n = IF runEvents[k].type = "gate-started" THEN runEvents[k].data
               ELSE runEvents[k].data.gate}

\* the positions in runEvents of the events of one type
EventsTyped(type) == {k \in 1..Len(runEvents) : runEvents[k].type = type}

GateEventTypes == {"gate-started", "gate-completed", "gate-error"}

\* C28: in sequential mode, when a gate starts, every gate invoked before it
\* has its Result appended and reported and its event emitted, and at every
\* moment at most one call of execute is in progress, also after a gate has
\* timed out and the Runner has moved on.
C28_OneGateAtATime ==
    ~parallel =>
        /\ \A j \in Entries : tpc[j] = "awaiting" =>
              \A i \in 1..(j - 1) : Invoked(i) =>
                  /\ tpc[i] # "awaiting"
                  /\ Len(OutputOf(i)) = 1
                  /\ Cardinality(EventsOf({"gate-completed", "gate-error"}, i)) = 1
        /\ Cardinality({c \in Entries \X (1..(MaxRetry + 2)) : c[2] <= InFlight(c[1])}) <= 1

\* C29: run-started is emitted once, before any gate event, and run-completed
\* once, after every gate event, when run returns; a gate that was invoked
\* has one gate-started, followed once its task has ended by exactly one of
\* gate-completed and gate-error; a gate that was not invoked has no event.
C29_EventsOrdered ==
    /\ Cardinality(EventsTyped("run-started")) = (IF rpc = "idle" THEN 0 ELSE 1)
    /\ Cardinality(EventsTyped("run-completed")) = (IF rpc = "done" THEN 1 ELSE 0)
    /\ rpc # "idle" => runEvents[1].type = "run-started"
    /\ rpc = "done" => runEvents[Len(runEvents)].type = "run-completed"
    /\ \A k \in 1..Len(runEvents) : runEvents[k].type \in GateEventTypes =>
          (IF runEvents[k].type = "gate-started" THEN runEvents[k].data
           ELSE runEvents[k].data.gate) \in {i \in Entries : Invoked(i)}
    /\ \A i \in Entries :
          IF Invoked(i)
          THEN /\ Cardinality(EventsOf({"gate-started"}, i)) = 1
               /\ Cardinality(EventsOf({"gate-completed", "gate-error"}, i))
                     = (IF tpc[i] = "awaiting" THEN 0 ELSE 1)
               /\ \A a \in EventsOf({"gate-started"}, i),
                     b \in EventsOf({"gate-completed", "gate-error"}, i) : a < b
          ELSE EventsOf(GateEventTypes, i) = {}

\* C29 witness: a sequential run of two gates returned; the Runner's timer
\* cut the first gate off and the second completed: six events in all.
C29_Witness ==
    /\ rpc = "done" /\ ~parallel /\ N = 2
    /\ tpc[1] = "errored" /\ results[1].error.kind = "timeout" /\ tpc[2] = "completed"
    /\ [k \in 1..Len(runEvents) |-> runEvents[k].type]
         = <<"run-started", "gate-started", "gate-error", "gate-started", "gate-completed",
             "run-completed">>

\* C30: a sequential run that stops early, leaving an enabled gate
\* uninvoked, emits run-stopped exactly once, naming the gate that caused the
\* stop, before run-completed, be the cause a failed Result or an error; a
\* run that processed every gate emits no run-stopped.
C30_RunStopped ==
    rpc = "done" =>
        LET stops == EventsTyped("run-stopped")
            cause == CHOOSE i \in Entries : Invoked(i) /\ \A j \in Entries : Invoked(j) => j <= i
        IN  /\ (\E i \in Entries : gates[i].enabled /\ tpc[i] = "none") =>
                  /\ Cardinality(stops) = 1
                  /\ \A k \in stops : runEvents[k].data.gate = cause /\ k < Len(runEvents)
            /\ (\A i \in Entries : tpc[i] # "none") => stops = {}

\* the fields of a RunSummary that tell how the run went
Observable == {"total", "passed", "failed", "skipped", "errors", "overallStatus", "score"}

\* what storeSummary may add to a summary
StorageFields == {"stored", "storageId", "storageError"}

\* the ids of the storage calls made by `by`
CallsBy(by) == {k \in 1..Len(storeCalls) : storeCalls[k].by = by}

\* C22: storeSummary never raises.  With a storage adapter and a task id it
\* makes one storage call and returns the summary it was given with stored =
\* true when the call succeeded, and with stored = false and storageError when
\* it failed; without one of them it makes no call and returns the summary as
\* it is.  total, passed, failed, skipped, errors, overallStatus and score are
\* those of the summary it was given in every case.
C22_StoreSummaryAbsorbs ==
    /\ rpc \in {"idle", "started", "gates", "joined", "flushing", "storing", "done"}
    /\ rpc = "done" =>
          IF MayStore
          THEN /\ Cardinality(CallsBy("storeSummary")) = 1
               /\ \A k \in CallsBy("storeSummary") :
                     LET given == storeCalls[k].result
                     IN  /\ storeCalls[k].outcome # "pending"
                         /\ summary.stored <=> storeCalls[k].outcome = "resolved"
                         /\ summary.stored => summary.storageId = k
                         /\ ~summary.stored => "storageError" \in DOMAIN summary
                         /\ DOMAIN summary \ DOMAIN given \subseteq StorageFields
                         /\ \A f \in DOMAIN given : summary[f] = given[f]
                         /\ \A f \in Observable : summary[f] = generateSummary(results)[f]
          ELSE /\ CallsBy("storeSummary") = {}
               /\ summary = generateSummary(results)
               /\ DOMAIN summary \cap StorageFields = {}

\* C22 witness: a run of two gates returned a summary that storage refused,
\* after storing both Results of the batch: stored = false, one passed and
\* one failed of two.
C22_Witness ==
    /\ rpc = "done" /\ MayStore
    /\ ~summary.stored /\ "storageError" \in DOMAIN summary
    /\ summary.total = 2 /\ summary.passed = 1 /\ summary.failed = 1
    /\ [k \in 1..Len(storeCalls) |-> storeCalls[k].outcome] = <<"resolved", "resolved", "rejected">>

\* the output of a run is settled by its configuration and the outcomes of
\* its gates: one Result per processed entry, in registration order; a
\* disabled entry yields the skipped Result and is not invoked, an enabled
\* one is invoked; entries are left out only after a Result that stops a
\* sequential run
RunShape ==
    LET m == Len(results)
        Stops(r) == ~parallel /\ ~continueOnFailure /\ r.status \in {"failed", "error"}
    IN  /\ m <= N
        /\ \A k \in 1..m :
              /\ results[k].gate = k
              /\ gates[k].enabled <=> Invoked(k)
              /\ ~gates[k].enabled => results[k] = RunnerSkipped(gates[k].gate)
              /\ k < m => ~(gates[k].enabled /\ Stops(results[k]))
        /\ \A k \in (m + 1)..N : ~Invoked(k)
        /\ m < N => m > 0 /\ gates[m].enabled /\ Stops(results[m])

\* storage has no say in how a run goes
StorageApart ==
    /\ rpc \in {"idle", "started", "gates", "joined"} => storeCalls = <<>>
    /\ rpc \in {"joined", "flushing", "storing", "done"} => RunShape
    /\ rpc = "done" =>
          /\ \A f \in Observable : summary[f] = generateSummary(results)[f]
          /\ DOMAIN summary.gates = DOMAIN generateSummary(results).gates
          /\ \A n \in DOMAIN summary.gates : \A f \in {"total", "passed", "failed"} :
                summary.gates[n][f] = generateSummary(results).gates[n][f]
          /\ DOMAIN summary \ DOMAIN generateSummary(results) \subseteq StorageFields

\* a step of the tail of run leaves the Results and the tasks as they are,
\* and a step in which storage is called or answers leaves the gates alone
TailKeepsRun ==
    /\ rpc \in {"joined", "flushing", "storing"} => UNCHANGED <<results, tpc>>
    /\ storeCalls' # storeCalls => UNCHANGED <<results, tpc, gpc, gval, execCalls>>

\* C23: storage does not interfere with a run.  No storage call is made
\* before every gate's outcome is in; from then on no answer of storage
\* changes the Results or the set of gates invoked, which are settled by the
\* configuration and the gates' outcomes alone; and the summary returned has
\* the counts, per-gate counts, overallStatus and score of those Results,
\* whatever storage answered or whether there was any: two runs that differ
\* only in storage differ only in stored, storageId and storageError.
C23_StorageNonInterfering ==
    /\ []StorageApart
    /\ [][TailKeepsRun]_vars

\* C23 witness: a run of two gates that passed returned; storage refused the
\* first Result and the summary and took the second Result, and the summary
\* says passed with both gates counted.
C23_Witness ==
    /\ rpc = "done" /\ MayStore
    /\ [k \in 1..Len(storeCalls) |-> storeCalls[k].outcome] = <<"rejected", "resolved", "rejected">>
    /\ summary.overallStatus = "passed" /\ summary.passed = 2 /\ summary.total = 2
    /\ ~summary.stored

\* C24: when run is called with a task id in its context, the Reporter has
\* that id before the first gate is invoked, and every enhanced Result
\* reported during the run, every storage call and the summary returned
\* carry exactly that id.
C24_TaskIdPropagated ==
    "taskId" \in DOMAIN context =>
        LET id == context.taskId
        IN  /\ rpc # "idle" => taskId = id
            /\ \A i \in Entries : (Invoked(i) \/ gpc[i] # "idle") => taskId = id
            /\ \A k \in 1..Len(batchResults) : batchResults[k].taskId = id
            /\ \A k \in 1..Len(repEvents) :
                  repEvents[k].type = "result" => repEvents[k].data.taskId = id
            /\ \A k \in 1..Len(storeCalls) :
                  /\ storeCalls[k].taskId = id
                  /\ storeCalls[k].result.taskId = id
            /\ \A k \in 1..Len(flushes) : "results" \in DOMAIN flushes[k] =>
                  \A j \in 1..Len(flushes[k].results) : flushes[k].results[j].taskId = id
            /\ summary # None => summary.taskId = id
            /\ rpc = "done" => runEvents[Len(runEvents)].data.taskId = id

\* C24 witness: a run called with the task id t1 returned; two Results were
\* reported, flushed to storage and summarised under that id.
C24_Witness ==
    /\ rpc = "done" /\ "taskId" \in DOMAIN context /\ context.taskId = "t1"
    /\ Len(flushes) = 1 /\ "results" \in DOMAIN flushes[1] /\ Len(flushes[1].results) = 2
    /\ Len(storeCalls) = 3
    /\ summary.taskId = "t1" /\ summary.stored

\* the tail of run is at or past the flush
InTail == rpc \in {"flushing", "storing", "done"}

\* once the summary is generated the Results it was made from stay as they
\* are, and once run has returned so do the summary and the events
SummaryKeepsResults ==
    /\ summary # None => (results' = results /\ summary'.gates = summary.gates)
    /\ rpc = "done" => (rpc' = "done" /\ summary' = summary /\ runEvents' = runEvents)

\* where the tail of run stands, and what has happened by then
TailOrder ==
    /\ ~InTail =>
        /\ flushes = <<>> /\ fpc = "idle" /\ summary = None /\ storeCalls = <<>>
        /\ EventsTyped("run-completed") = {}
    /\ InTail => \A i \in Entries : tpc[i] # "awaiting"
    /\ rpc = "flushing" =>
        /\ summary = None /\ CallsBy("storeSummary") = {}
        /\ EventsTyped("run-completed") = {}
        /\ Len(flushes) = (IF fpc = "idle" THEN 1 ELSE 0)
    /\ rpc = "storing" =>
        /\ Len(flushes) = 1 /\ fpc = "idle" /\ batchResults = <<>>
        /\ \A k \in CallsBy("flushBatch") : storeCalls[k].outcome # "pending"
        /\ summary # None
        /\ Cardinality(CallsBy("storeSummary")) = 1
        /\ \A k \in CallsBy("storeSummary") :
              /\ \A j \in CallsBy("flushBatch") : j < k
              /\ storeCalls[k].outcome = "pending"
        /\ EventsTyped("run-completed") = {}
    /\ rpc = "done" =>
        /\ Len(flushes) = 1 /\ fpc = "idle" /\ batchResults = <<>>
        /\ Cardinality(CallsBy("storeSummary")) = (IF MayStore THEN 1 ELSE 0)
        /\ \A k \in 1..Len(storeCalls) : storeCalls[k].outcome # "pending"
        /\ EventsTyped("run-completed") = {Len(runEvents)}
        /\ runEvents[Len(runEvents)].data = summary

\* C27: flush, generateSummary, storeSummary, run-completed and the return
\* happen in this order, each once, and none before every dispatched task has
\* produced its Result: nothing of the tail has happened while a task is
\* awaited; the summary is generated once flushBatch has returned, with its
\* storage calls answered; run-completed is emitted once, last, with the
\* summary storeSummary returned; and the Results handed to generateSummary
\* are not changed afterwards.
C27_TailInOrder ==
    /\ []TailOrder
    /\ [][SummaryKeepsResults]_vars

\* C27 witness: a parallel run of two gates with storage returned: the
\* second gate was the first to end, then the first; two Results were
\* flushed, the summary stored, run-completed emitted.
C27_Witness ==
    /\ rpc = "done" /\ parallel /\ MayStore /\ N = 2
    /\ tpc = [i \in Slots |-> "completed"]
    /\ Len(repEvents) = 3 /\ repEvents[1].data.gate = 2 /\ repEvents[2].data.gate = 1
    /\ Len(storeCalls) = 3 /\ summary.stored

\* C25: an unknown gate type is fatal at construction: createGate raises
\* exactly for a type that is not registered, and createWithGates and
\* createForCI raise when a gate type of their list is not registered; a
\* Runner they return has a gate for each type of the list.
C25_UnknownTypeFatal ==
    \A k \in 1..Len(built) :
        LET b == built[k]
            unknown == \E j \in 1..Len(b.types) : b.types[j] \notin b.known
        IN  /\ b.call = "createGate" => (b.threw <=> unknown)
            /\ b.call \in {"createWithGates", "createForCI"} =>
                  /\ unknown => b.threw
                  /\ ~b.threw => b.gates = [j \in 1..Len(b.types) |-> [type |-> b.types[j]]]

\* the calls of execute's log that were made for `op`
FsCalls(op) == {k \in 1..Len(fsLog) : fsLog[k].op = op}

\* the calls of execute's log, other than the cleanup, that failed
Raised == {k \in 1..Len(fsLog) : ~fsLog[k].ok /\ fsLog[k].op # "rm"}

\* C26: TestRunnerGate.execute does not throw: when a step raised it returns
\* a Result with status error whose error is what was raised, otherwise a
\* skip, pass or fail Result; and whenever the temp directory was created,
\* cleanupTempDir ran exactly once before execute returned, on every path.
C26_ExecuteGraceful ==
    execPc = "returned" =>
        /\ execRet.status \in {"skip", "pass", "fail", "error"}
        /\ Raised # {} <=> execRet.status = "error"
        /\ \A k \in Raised : execRet.error = OpError(fsLog[k].op)
        /\ Cardinality(FsCalls("rm")) =
              (IF \E k \in FsCalls("mkdir") : fsLog[k].ok THEN 1 ELSE 0)

----------------------------------------------------------------------------
(* The Runner's timeout and the gates' own timeouts                        *)

\* entry i holds an enabled BaseQualityGate whose retry loop can run
Retrying(i) == IsBase(i) /\ gates[i].gate.enabled /\ gates[i].gate.retryCount >= 0

\* C31: the Runner's timeout is only a default for gates without a timeout
\* of their own: the task of a gate whose own timeout is larger than the
\* Runner's ends with the gate's own Result, after the gate's run has made
\* its attempts, and never with the Runner's timeout error.
C31_OwnTimeoutGoverns ==
    \A i \in Entries :
        (/\ Retrying(i) /\ gates[i].gate.timeout > timeout
         /\ tpc[i] \in {"completed", "errored"}) =>
            /\ tpc[i] = "completed"
            /\ gpc[i] = "resolved"
            /\ \A k \in 1..Len(results) :
                  results[k].gate = gates[i].gate.name => results[k] = gval[i]

\* the longest the Runner waits for its gates: each gate's task is raced
\* against a timer of `timeout`, one task after the other in sequential
\* mode, all tasks at once in parallel mode
WaitBound == IF parallel THEN (IF N > 0 THEN timeout ELSE 0) ELSE N * timeout

\* run has returned a RunSummary
Returned == rpc = "done" /\ summary # None

\* the wall clock stays within the bound until run returns, and the summary
\* is made within it
WithinBound ==
    /\ rpc # "done" => now <= WaitBound
    /\ Returned => summary.timestamp <= WaitBound

----------------------------------------------------------------------------
(* Parallel tasks                                                          *)

\* the timeout error the Runner's timer rejects entry i's task with
RunnerTimeout(i) == TimeoutError(gates[i].gate.name, timeout)

\* entry i's task, or its gate, ran into a timeout: the Result of the task
\* reports one
TimedOut(i) ==
    /\ tpc[i] \in {"completed", "errored"}
    /\ "error" \in DOMAIN tres[i]
    /\ tres[i].error.kind = "timeout"

\* everything the model holds about entry j's task and gate
TaskState(j) ==
    <<tpc[j], tres[j], rtimer[j], gpc[j], gval[j], attempts[j], lastError[j],
      gtimer[j], sleepT[j], execCalls[j], abandoned[j], emitted[j]>>

\* the Result of a parallel task is made from its own gate's run, or from
\* its own timer, alone
OwnResult ==
    \A i \in Entries :
        /\ tpc[i] = "completed" => gpc[i] = "resolved" /\ tres[i] = gval[i]
        /\ tpc[i] = "errored" =>
              \/ tres[i] = RunnerError(gates[i].gate, RunnerTimeout(i))
              \/ gpc[i] = "rejected" /\ tres[i] = RunnerError(gates[i].gate, gval[i])
        /\ tpc[i] = "skipped" => tres[i] = RunnerSkipped(gates[i].gate)

\* a step that times entry i out, at the Runner or inside the gate, leaves
\* every other entry's task and gate as they are
TimeoutLeavesSiblings ==
    \A i \in Entries :
        (\/ ~TimedOut(i) /\ TimedOut(i)'
         \/ gtimer[i] = 0 /\ gpc[i] = "executing" /\ gpc'[i] # "executing") =>
            \A j \in Entries \ {i} : TaskState(j)' = TaskState(j)

\* what C33 asks of a parallel run, state by state and step by step
SiblingsUntouched == parallel => (OwnResult /\ OwnResult' /\ TimeoutLeavesSiblings)

\* C33: in parallel mode a gate that exceeds its timeout gets an error
\* Result of its own and its siblings are not affected: each task's Result
\* is made from its own gate alone, and the step that times a gate out
\* changes nothing of any sibling, so that a sibling still running goes on.
C33_ParallelTimeoutIndependent == [][SiblingsUntouched]_vars

\* C33 witness: a parallel run of two gates returned; the first gate timed
\* out, the second passed, and its task ended after the first one's.
C33_Witness ==
    /\ parallel /\ rpc = "done" /\ N = 2
    /\ TimedOut(1) /\ tres[1].status = "error"
    /\ tpc[2] = "completed" /\ tres[2].status = "pass"
    /\ \E a \in EventsOf({"gate-error", "gate-completed"}, 1) :
          \E b \in EventsOf({"gate-completed"}, 2) : a < b

----------------------------------------------------------------------------
(* Retries                                                                 *)

\* the retry events entry i's gate has emitted, in order
RetryEvents(i) == SelectSeq(emitted[i], LAMBDA e : e.type = "retry")

\* the failed attempts of entry i's gate that are followed by another
\* attempt: every invocation of execute but the last has failed, and while
\* the gate sleeps the last one has failed too and the next one is due
FollowedUp(i) == IF gpc[i] = "sleeping" THEN execCalls[i] ELSE execCalls[i] - 1

\* C34: the retry events of a gate's run are, in order, one for each failed
\* attempt that is followed by another attempt, numbered 1, 2, ..., each
\* with the gate's name and the error of that attempt; none follows the
\* last failed attempt, so that once run has returned their number is the
\* number of invocations of execute less one, whatever the outcome.
C34_RetryEventsMatch ==
    \A i \in Entries :
        (Retrying(i) /\ RunCalled(i)) =>
            LET g == gates[i].gate
                ev == RetryEvents(i)
            IN  /\ Len(ev) = FollowedUp(i)
                /\ Len(ev) <= g.retryCount
                /\ \A k \in 1..Len(ev) :
                      /\ ev[k].data.gate = g.name
                      /\ ev[k].data.attempt = k
                      /\ ev[k].data.error \in {ThrownError(k), TimeoutError(g.name, g.timeout)}
                /\ gpc[i] = "resolved" => Len(ev) = execCalls[i] - 1

\* C34 witness: retryCount = 2; two attempts failed, one by raising and one
\* by timing out, and were notified; the third attempt failed as well and
\* run returned its error Result without a third notification.
C34_Witness ==
    \E i \in Entries :
        /\ Retrying(i) /\ gates[i].gate.retryCount = 2
        /\ GaveUp(i) /\ execCalls[i] = 3
        /\ Len(RetryEvents(i)) = 2
        /\ RetryEvents(i)[1].data.error.kind = "thrown"
        /\ RetryEvents(i)[2].data.error.kind = "timeout"

\* what a step does to entry i's gate with respect to its backoff wait
BackoffStep(i) ==
    LET r == gates[i].gate.retryCount
        n == attempts'[i]
    IN  \* the n-th failed attempt, n <= retryCount, starts a wait of BaseDelay * n
        /\ (gpc[i] # "sleeping" /\ gpc'[i] = "sleeping") =>
              /\ gpc[i] = "executing"
              /\ n = attempts[i] + 1 /\ n = execCalls[i] /\ n <= r
              /\ sleepT'[i] = BaseDelay * n
        \* the wait runs down with the clock and with nothing else
        /\ (gpc[i] = "sleeping" /\ sleepT'[i] # sleepT[i]) =>
              \/ gpc'[i] = "sleeping" /\ sleepT'[i] = sleepT[i] - 1 /\ now' = now + 1
              \/ gpc'[i] = "executing" /\ sleepT[i] = 0
        \* an attempt other than the first starts when a wait has run down, only
        /\ (execCalls'[i] # execCalls[i] /\ execCalls[i] > 0) =>
              /\ gpc[i] = "sleeping" /\ sleepT[i] = 0
              /\ execCalls'[i] = execCalls[i] + 1
        \* no wait after the last failed attempt or after a success
        /\ (gpc[i] = "executing" /\ gpc'[i] # "executing" /\ gpc'[i] # "sleeping") =>
              /\ gpc'[i] = "resolved" /\ sleepT'[i] = Off
              /\ GaveUp(i)' => n = r + 1
        /\ (gpc[i] = "executing" /\ attempts'[i] > r) => gpc'[i] = "resolved"

\* every step keeps to the backoff rule, for every retrying gate
BackoffRule == \A i \in Entries : Retrying(i) => BackoffStep(i)

\* C35: backoff is linear: after the n-th failed attempt, n <= retryCount,
\* the gate waits BaseDelay * n (BaseDelay = 1000 ms, the unit of time); the
\* next attempt starts when that wait has elapsed, not before; there is no
\* wait after the last failed attempt or after a success.
C35_LinearBackoff == [][BackoffRule]_vars

\* C35 witness: retryCount = 2; the second attempt failed and the wait of
\* 2 * BaseDelay that followed has just elapsed, 3 * BaseDelay after the
\* first failure at the earliest.
C35_Witness ==
    \E i \in Entries :
        /\ Retrying(i) /\ gates[i].gate.retryCount = 2
        /\ gpc[i] = "sleeping" /\ attempts[i] = 2 /\ sleepT[i] = 0
        /\ now >= 3 * BaseDelay

\* C36: an execution error is eligible for retry: a Result with status
\* error that the run of an enabled gate with retryCount = r returns was
\* preceded by r + 1 invocations of execute, also when it is a built-in
\* gate whose analysis raised.
C36_ErrorAfterRetries ==
    \A i \in Entries :
        (Retrying(i) /\ gpc[i] = "resolved" /\ gval[i].status = "error") =>
            execCalls[i] = gates[i].gate.retryCount + 1

----------------------------------------------------------------------------
(* The failure policy                                                      *)

\* the failureThreshold the gate was configured with: the one of its
\* options, or the default of 1
ConfiguredThreshold ==
    IF "failureThreshold" \in DOMAIN gateOptions THEN gateOptions.failureThreshold ELSE 1

\* the issues of severity error, however it is spelled
ErrorIssues == SelectSeq(issues, LAMBDA i : i.severity \in {"error", "ERROR"})

\* C37: shouldFail(issues) is true iff the number of issues of severity
\* error is at least the configured failureThreshold, for every issue list
\* and every threshold, 0 included; issues of any other severity do not
\* count; the lint and security gates report fail exactly when shouldFail
\* is true, and pass otherwise.
C37_DefaultPolicy ==
    \A k \in 1..Len(verdicts) :
        LET fails == Len(ErrorIssues) >= ConfiguredThreshold
        IN  IF verdicts[k].call = "shouldFail"
            THEN verdicts[k].ret = fails
            ELSE verdicts[k].ret.status = (IF fails THEN "fail" ELSE "pass")

----------------------------------------------------------------------------
(* Attempts in flight                                                      *)

\* C40: within one run of a gate at most one invocation of its execute is
\* in flight at any time: no retry attempt starts while an earlier attempt,
\* in particular one that timed out, is still executing.
C40_OneAttemptInFlight == \A i \in Entries : IsBase(i) => InFlight(i) <= 1

----------------------------------------------------------------------------
(* Editing the gate list                                                   *)

\* the calls of addGate and removeGate made after run was called
EditsInRun == {k \in 1..Len(edits) : edits[k].during # "idle"}

\* the gate list as it was when run was called: what this.gates held before
\* the first call made after that, or holds now if there was none
ListAtRun ==
    IF EditsInRun = {} THEN FieldList
    ELSE edits[CHOOSE k \in EditsInRun : \A m \in EditsInRun : k <= m].before

\* each call did to the list what it is meant to do
EditsAsMeant ==
    \A k \in 1..Len(edits) :
        LET e == edits[k]
        IN  IF e.op = "addGate"
            THEN e.after = e.before \o <<e.arg>>
            ELSE /\ \A m \in 1..Len(e.after) : e.after[m].gate.name # e.arg
                 /\ e.after = SelectSeq(e.before, LAMBDA x : x \in {e.after[m] : m \in 1..Len(e.after)})
                 /\ \A m \in 1..Len(e.before) :
                       e.before[m].gate.name # e.arg =>
                           \E j \in 1..Len(e.after) : e.after[j] = e.before[m]

\* the run in flight deals with the gates of the list it was called on:
\* it dispatches and reports no entry beyond that list, its Results are those
\* of that list's gates in order, one for each when it returns without a stop
RunOnListAtRun ==
    rpc # "idle" =>
        /\ \A i \in Slots : tpc[i] # "none" => i <= Len(ListAtRun)
        /\ Len(results) <= Len(ListAtRun)
        /\ \A k \in 1..Len(results) : results[k].gate = ListAtRun[k].gate.name
        /\ (rpc = "done" /\ continueOnFailure) => Len(results) = Len(ListAtRun)

\* a call of addGate or removeGate starts, settles and reports nothing
EditInvokesNothing == edits' # edits => UNCHANGED <<runVars, gateVars, repVars>>

\* what C38 asks of every state a step leads to, and of the step
EditsLeaveRunAlone ==
    /\ EditsAsMeant' /\ RunOnListAtRun'
    /\ EditInvokesNothing

\* C38: addGate and removeGate invoke no gate; removeGate removes every
\* entry of the name given and keeps the order of the rest, addGate appends
\* at the end; and a call of either while a run is in flight does not
\* change which gates that run executes and reports: the run deals with the
\* gate list as it was when run was called, in sequential and parallel mode.
C38_EditsLeaveRunAlone == [][EditsLeaveRunAlone]_vars

----------------------------------------------------------------------------
(* Overlapping runs                                                        *)

\* an object without the marks a settled storage call leaves on it
Unmarked(e) == [f \in DOMAIN e \ {"stored", "storageId", "storageError"} |-> e[f]]

\* the storage calls made by flushBatch, whichever call of run it served
FlushCalls == {id \in 1..Len(storeCalls) : storeCalls[id].by[1] = "flushBatch"}

\* every enhanced Result reportResult returned to a call of run, and that
\* call's summary, carry the call's own task id
OwnTask ==
    \A r \in RunIds :
        /\ \A k \in 1..Len(runs[r].reported) : runs[r].reported[k].taskId = RunTask(r)
        /\ runs[r].summary # None => runs[r].summary.taskId = RunTask(r)

\* a storage call of a run's flush or summary is made under that run's task
\* id, and a flush hands over entries that run reported
StoredUnderOwnTask ==
    \A id \in 1..Len(storeCalls) :
        LET c == storeCalls[id]
            r == c.by[2]
        IN  /\ c.taskId = RunTask(r)
            /\ c.by[1] = "flushBatch" =>
                  \E k \in 1..Len(runs[r].reported) :
                      Unmarked(runs[r].reported[k]) = Unmarked(c.result)

\* an entry leaves the Batch only after it has been handed to storage
NoEntryDropped ==
    (storageAdapter /\ batchResults' = <<>>) =>
        \A k \in 1..Len(batchResults) :
            \E id \in FlushCalls : Unmarked(storeCalls[id].result) = Unmarked(batchResults[k])

\* C39: calls of run on one Runner that overlap, each with a task id of its
\* own, do not cross-talk: the enhanced Results and the summary of a call
\* carry that call's task id, the Batch entries of a call are handed to
\* storage under that call's task id only, and no flush clears an entry
\* another call reported before it was handed to storage.
C39_RunsApart == [](OwnTask /\ StoredUnderOwnTask) /\ [][NoEntryDropped]_vars

====
